---- MODULE Spec2Model ----
(***************************************************************************)
(* A model of the flagwise consumer service (src/services/consumer):       *)
(* the detection engine, the Slack alert service with its rate limiter,    *)
(* and the Kafka consume loop.                                             *)
(*                                                                         *)
(* Strings are modelled as tuples of one-character strings, so that        *)
(* str.lower(), str.strip(), str.split(',') and the `in` substring test    *)
(* are computed rather than assumed.  An Optional value is a tuple of      *)
(* length 0 (None) or 1 (the value).                                       *)
(***************************************************************************)
EXTENDS Integers, Sequences, FiniteSets, TLC

\* ------------------------------------------------------------------ bounds

\* Longest rule snapshot the rule store returns in the model.
MaxRules == 2
\* Longest list of records handed to process_batch in the model.
MaxBatch == 2
\* Cap on the engine's total_processed counter (the code's counter is unbounded).
MaxProcessed == 3

\* Ticks of the model's clock in one minute.
TicksPerMinute == 1
\* Cap on the number of send_alert calls for alert-eligible records.
MaxSends == 6
\* Cap on the faults injected in one run: failed posts, failed database writes.
MaxFaults == 2
\* Threads that call the rate limiter concurrently.
NumThreads == 2
\* settings.max_poll_records in the model (config.py:20 ships 500).
MaxPollRecords == 2
\* Messages the upstream log delivers in one run.
MaxMessages == 3
\* Rows the store holds in the runs that write to it directly.
MaxStored == 3
\* Distinct (timestamp, IV) pairs a Fernet encryption can draw.
MaxNonce == 2

\* ------------------------------------------------------ program constants

\* detection_engine.py:124  min(total_score, 100)
ScoreCap == 100
\* alert_service.py:56  RateLimiter(max_alerts=5, time_window_minutes=1)
MaxAlerts == 5
TimeWindowMinutes == 1
\* config.py:32  alert_min_risk_score
AlertMinRiskScore == 50
\* main.py:37  wait_for_dependencies: max_retries
MaxRetries == 30
\* detection_engine.py:29  refresh_interval: int = 60
RefreshIntervalSeconds == 60
\* encryption_service.py:34  len(encryption_key) < 32
MinKeyLength == 32
\* kafka_consumer.py:69  batch_size = min(settings.max_poll_records, 100)
BatchCeiling == 100

\* ----------------------------------------------------------------- strings

Min(a, b) == IF a < b THEN a ELSE b

None == <<>>
Some(v) == <<v>>

\* str.lower() on one character of the model's alphabet.
LowerChar(c) ==
  CASE c = "A" -> "a"
    [] c = "B" -> "b"
    [] c = "M" -> "m"
    [] OTHER -> c

\* str.lower()
Lower(s) == [i \in 1..Len(s) |-> LowerChar(s[i])]

\* str.strip(): leading and trailing blanks removed.
RECURSIVE LStrip(_)
LStrip(s) == IF s # <<>> /\ Head(s) = " " THEN LStrip(Tail(s)) ELSE s

RECURSIVE RStrip(_)
RStrip(s) ==
  IF s # <<>> /\ s[Len(s)] = " " THEN RStrip(SubSeq(s, 1, Len(s) - 1)) ELSE s

Strip(s) == RStrip(LStrip(s))

\* str.split(','): always at least one element; "a,".split(',') = ["a", ""].
RECURSIVE SplitFrom(_, _)
SplitFrom(s, cur) ==
  IF s = <<>> THEN <<cur>>
  ELSE IF Head(s) = "," THEN <<cur>> \o SplitFrom(Tail(s), <<>>)
  ELSE SplitFrom(Tail(s), Append(cur, Head(s)))

SplitComma(s) == SplitFrom(s, <<>>)

\* Python's `needle in hay` on strings (the empty needle is in every string).
Contains(hay, needle) ==
  \E i \in 0..(Len(hay) - Len(needle)) :
    SubSeq(hay, i + 1, i + Len(needle)) = needle

\* sep.join(parts)
RECURSIVE Join(_, _)
Join(sep, parts) ==
  IF parts = <<>> THEN <<>>
  ELSE IF Len(parts) = 1 THEN parts[1]
  ELSE parts[1] \o sep \o Join(sep, Tail(parts))

\* re.compile(pattern, re.IGNORECASE): the model's patterns are literals,
\* except that an unbalanced "(" does not compile (re.error).
RegexCompiles(p) == \A i \in 1..Len(p) : p[i] # "("

\* regex.search(prompt) for a compiled literal pattern, ignoring case.
RegexSearch(p, text) == Contains(Lower(text), Lower(p))


\* ------------------------------------------------------------------- state

VARIABLES
  rules,            \* RuleCache._rules: the snapshot of active rules
  compiled,         \* DetectionEngine._compiled_regexes: the patterns cached
  regex_errors,     \* "Invalid regex pattern" error lines logged so far
  total_processed,  \* DetectionEngine.total_processed
  total_flagged,    \* DetectionEngine.total_flagged
  rule_hit_count,   \* DetectionEngine.rule_hit_count: rule name -> hits
  returned,         \* the list the last process_batch call returned
  clock,            \* datetime.now(), in ticks
  slack_webhook_url,\* settings.slack_webhook_url
  webhook_url,      \* SlackAlertService.webhook_url (None when not configured)
  alert_times,      \* RateLimiter.alert_times: the deque of admission times
  alerts,           \* the rows of the alerts table, in insertion order
  posts,            \* the number of requests.post calls made
  nsends,           \* send_alert calls made so far for alert-eligible records
  last,             \* history: what the last send_alert call did
  post_faults,      \* history: posts that did not answer 200, so far
  db_faults,        \* history: database operations that failed, so far
  admitted,         \* history: how many attempts were admitted at each tick
  lock,             \* RateLimiter.lock: the thread holding it, 0 when free
  tpc,              \* where each thread is in can_send_alert
  tnow,             \* each thread's local `now`
  running,          \* LLMTrafficConsumer.running
  pc,               \* where the consumer is: poll, detect, alerts, persist, ...
  batch_records,    \* _consume_loop's pending batch
  flushing,         \* the list _process_batch is working on
  alert_idx,        \* _send_alerts: the index of the next record
  resume,           \* where _process_batch returns to: poll or exit
  messages_processed, \* LLMTrafficConsumer.messages_processed
  messages_failed,  \* LLMTrafficConsumer.messages_failed
  position,         \* the consumer's position: messages polled so far
  committed,        \* the offset last committed by auto-commit
  polled,           \* history: what the last poll returned, error events aside
  dlq,              \* "Message sent to DLQ" lines logged by _send_to_dlq
  store,            \* the rows of llm_requests, in insertion order
  primary_key,      \* whether llm_requests.id carries a unique constraint
  inserted,         \* history: what the last bulk_insert_llm_requests returned
  attempt,          \* wait_for_dependencies: the loop variable `attempt`
  exit_status,      \* the status the process exited with (None while it runs)
  ready,            \* history: the dependencies whose readiness check succeeded
  last_refresh,     \* RuleCache._last_refresh
  fetched_at,       \* history: the `now` of the call that fetched the snapshot
  rc_lock,          \* RuleCache._lock: the thread holding it, 0 when free
  caller,           \* each thread's place and locals in get_rules
  encryption_key,   \* settings.encryption_key
  master_key,       \* EncryptionService.master_key (empty for None)
  encryption_enabled, \* EncryptionService.encryption_enabled
  field_keys,       \* EncryptionService.field_keys: field -> derived key
  cell              \* a value on its way through encrypt_field and decrypt_field

detVars ==
  <<rules, compiled, regex_errors, total_processed, total_flagged,
    rule_hit_count, returned>>

alertVars ==
  <<slack_webhook_url, webhook_url, alert_times, alerts, posts, nsends, last,
    post_faults,
    db_faults, admitted>>

limVars == <<lock, tpc, tnow>>

procVars == <<attempt, exit_status, ready>>

dbVars == <<primary_key, inserted>>

loopVars ==
  <<running, pc, batch_records, flushing, alert_idx, resume, messages_processed,
    messages_failed, position, committed, polled, dlq, store, procVars, dbVars>>

cacheVars == <<last_refresh, fetched_at, rc_lock, caller>>

cryptVars == <<encryption_key, master_key, encryption_enabled, field_keys, cell>>

vars == <<detVars, clock, alertVars, limVars, loopVars, cacheVars, cryptVars>>

\* -------------------------------------------------------- detection engine

\* The rows the rule store can hold (detection_rules, is_active = TRUE).
RulePool ==
  { [name |-> <<"k">>, rule_type |-> "keyword", pattern |-> <<"a", ",", " ", "B">>,
     severity |-> "low", points |-> 10, is_active |-> TRUE],
    [name |-> <<"z">>, rule_type |-> "keyword", pattern |-> <<"x">>,
     severity |-> "low", points |-> 0, is_active |-> TRUE],
    [name |-> <<"e">>, rule_type |-> "keyword", pattern |-> <<"b", ",">>,
     severity |-> "medium", points |-> 20, is_active |-> TRUE],
    [name |-> <<"r">>, rule_type |-> "regex", pattern |-> <<"a", "B">>,
     severity |-> "critical", points |-> 80, is_active |-> TRUE],
    [name |-> <<"i">>, rule_type |-> "regex", pattern |-> <<"(", "a">>,
     severity |-> "high", points |-> 50, is_active |-> TRUE],
    [name |-> <<"m">>, rule_type |-> "model_restriction",
     pattern |-> <<"n", ",", " ", "m">>,
     severity |-> "medium", points |-> 60, is_active |-> TRUE],
    [name |-> <<"c">>, rule_type |-> "custom_scoring", pattern |-> <<"x">>,
     severity |-> "high", points |-> 100, is_active |-> TRUE] }

\* The place of a severity in the order of the text column.
SeverityRank(severity) ==
  CASE severity = "critical" -> 1
    [] severity = "high" -> 2
    [] severity = "low" -> 3
    [] severity = "medium" -> 4

\* ORDER BY severity DESC, points DESC
RowBefore(a, b) ==
  \/ SeverityRank(a.severity) > SeverityRank(b.severity)
  \/ a.severity = b.severity /\ a.points >= b.points

\* The result sets a fetch can return: lists of distinct rows, in the
\* query's order.
RuleSnapshots ==
  UNION { { s \in [1..n -> RulePool] :
              \A i, j \in 1..n : i < j => (s[i] # s[j] /\ RowBefore(s[i], s[j])) }
          : n \in 0..MaxRules }

\* DatabaseRecord as DatabaseRecord.from_llm_request builds it: the score
\* fields keep their defaults.
NewRecord(id, prompt, model) ==
  [id |-> id, prompt |-> prompt, model |-> model,
   risk_score |-> 0, is_flagged |-> FALSE, flag_reason |-> None]

\* The records the model hands to the engine.
InputRecords ==
  { NewRecord(0, <<>>, <<"m">>), NewRecord(0, <<"x">>, <<"o">>),
    NewRecord(0, <<"A", "b">>, <<"m">>), NewRecord(0, <<"A", "b">>, <<"o">>) }

InputBatches == UNION { [1..n -> InputRecords] : n \in 0..MaxBatch }

\* _check_keyword_rule
CheckKeywordRule(record, rule) ==
  IF record.prompt = <<>> THEN FALSE
  ELSE LET parts == SplitComma(rule.pattern)
           keywords == [i \in 1..Len(parts) |-> Lower(Strip(parts[i]))]
           prompt_lower == Lower(record.prompt)
       IN \E i \in 1..Len(keywords) : Contains(prompt_lower, keywords[i])

\* A variant that takes a pattern that does not compile for a match.
RegexErrorMatches == TRUE

\* except re.error: the error is logged and counted; return False
RegexErrorResult == FALSE

\* _check_regex_rule: the match, the cache afterwards, and the error lines
\* logged (a pattern that does not compile is never put in the cache).
CheckRegexRule(record, rule, cache) ==
  IF record.prompt = <<>>
  THEN [match |-> FALSE, cache |-> cache, errors |-> 0]
  ELSE IF rule.pattern \notin cache /\ ~RegexCompiles(rule.pattern)
  THEN [match |-> RegexErrorResult, cache |-> cache, errors |-> 1]
  ELSE [match |-> RegexSearch(rule.pattern, record.prompt),
        cache |-> cache \cup {rule.pattern}, errors |-> 0]

\* _check_model_restriction_rule
CheckModelRestrictionRule(record, rule) ==
  IF record.model = <<>> THEN FALSE
  ELSE LET parts == SplitComma(rule.pattern)
           restricted_models == [i \in 1..Len(parts) |-> Lower(Strip(parts[i]))]
       IN \E i \in 1..Len(restricted_models) :
            restricted_models[i] = Lower(record.model)

\* _check_rule: dispatch on rule_type; an unknown type is a non-match.
CheckRule(record, rule, cache) ==
  CASE rule.rule_type = "keyword" ->
         [match |-> CheckKeywordRule(record, rule), cache |-> cache, errors |-> 0]
    [] rule.rule_type = "regex" -> CheckRegexRule(record, rule, cache)
    [] rule.rule_type = "model_restriction" ->
         [match |-> CheckModelRestrictionRule(record, rule),
          cache |-> cache, errors |-> 0]
    [] OTHER -> [match |-> FALSE, cache |-> cache, errors |-> 0]

\* rule_hit_count[name] = rule_hit_count.get(name, 0) + 1
Hit(hits, name) ==
  IF name \in DOMAIN hits THEN [hits EXCEPT ![name] = @ + 1]
  ELSE hits @@ (name :> 1)

\* A variant that puts the latest name first.
PrependTriggered(triggered_rules, name) == <<name>> \o triggered_rules

\* triggered_rules.append(rule.name)
AppendTriggered(triggered_rules, name) == Append(triggered_rules, name)

\* The loop of _process_single_record over the rules, in snapshot order.
\* acc = [total_score, triggered_rules, cache, errors, hits].
RECURSIVE RuleLoop(_, _, _)
RuleLoop(record, rs, acc) ==
  IF rs = <<>> THEN acc
  ELSE LET rule == Head(rs)
           c == CheckRule(record, rule, acc.cache)
       IN RuleLoop(record, Tail(rs),
            IF c.match
            THEN [total_score |-> acc.total_score + rule.points,
                  triggered_rules |-> AppendTriggered(acc.triggered_rules, rule.name),
                  cache |-> c.cache,
                  errors |-> acc.errors + c.errors,
                  hits |-> Hit(acc.hits, rule.name)]
            ELSE [acc EXCEPT !.cache = c.cache, !.errors = @ + c.errors])

RiskScoreUncapped(total_score) == total_score

\* record.risk_score = min(total_score, 100)
RiskScore(total_score) == Min(total_score, ScoreCap)

IsFlaggedFromZero(risk_score) == risk_score >= 0

\* record.is_flagged = record.risk_score > 0
IsFlagged(risk_score) == risk_score > 0

\* _process_single_record: the record as returned and the engine state after.
\* st = [cache, errors, hits, flagged].
ProcessSingleRecord(record, rs, st) ==
  LET acc == RuleLoop(record, rs,
               [total_score |-> 0, triggered_rules |-> <<>>, cache |-> st.cache,
                errors |-> st.errors, hits |-> st.hits])
      risk == RiskScore(acc.total_score)
  IN [record |->
        [record EXCEPT
           !.risk_score = risk,
           !.is_flagged = IsFlagged(risk),
           !.flag_reason = IF acc.triggered_rules # <<>>
                           THEN Some(Join(<<",", " ">>, acc.triggered_rules))
                           ELSE @],
      st |-> [cache |-> acc.cache, errors |-> acc.errors, hits |-> acc.hits,
              flagged |-> IF acc.triggered_rules # <<>>
                          THEN st.flagged + 1 ELSE st.flagged]]

\* The loop of process_batch over the records.
RECURSIVE RecordLoop(_, _, _, _)
RecordLoop(records, rs, st, done) ==
  IF records = <<>> THEN [records |-> done, st |-> st]
  ELSE LET r == ProcessSingleRecord(Head(records), rs, st)
       IN RecordLoop(Tail(records), rs, r.st, Append(done, r.record))

\* process_batch as a function of the batch, the snapshot get_rules returned
\* and the engine state: an empty batch or an empty snapshot returns the batch
\* as it is and counts nothing.
ProcessBatchResult(records, rs, st, processed) ==
  IF records = <<>> \/ rs = <<>>
  THEN [records |-> records, st |-> st, processed |-> processed]
  ELSE LET r == RecordLoop(records, rs, st, <<>>)
       IN [records |-> r.records, st |-> r.st,
           processed |-> processed + Len(records)]

EngineState ==
  [cache |-> compiled, errors |-> regex_errors, hits |-> rule_hit_count,
   flagged |-> total_flagged]

\* DetectionEngine.process_batch
ProcessBatch(records) ==
  /\ total_processed + Len(records) <= MaxProcessed
  /\ LET r == ProcessBatchResult(records, rules, EngineState, total_processed)
     IN /\ returned' = r.records
        /\ compiled' = r.st.cache
        /\ regex_errors' = r.st.errors
        /\ rule_hit_count' = r.st.hits
        /\ total_flagged' = r.st.flagged
        /\ total_processed' = r.processed
  /\ UNCHANGED <<rules, clock, alertVars, limVars, loopVars, cacheVars, cryptVars>>

\* ----------------------------------------------------------- alert service


\* RateLimiter.time_window = timedelta(minutes=time_window_minutes), in ticks.
TimeWindow == TimeWindowMinutes * TicksPerMinute

\* The clock runs until the first window has passed.
MaxClock == TimeWindow + 1

Ticks == 0..MaxClock

\* config.py:31: the value the settings ship with.
PlaceholderWebhook == "https://hooks.slack.com/services/YOUR/SLACK/WEBHOOK"

\* The values settings.slack_webhook_url takes in the model.
WebhookSettings == {"", PlaceholderWebhook, "https://hooks.slack.com/services/T/B/X"}

\* _load_webhook_config
LoadWebhookConfig(setting) ==
  IF setting # "" /\ setting # PlaceholderWebhook THEN Some(setting) ELSE None

\* The while loop of can_send_alert: entries older than the window are
\* popped from the left.
RECURSIVE Evict(_, _)
Evict(q, now) ==
  IF q # <<>> /\ now - Head(q) > TimeWindow THEN Evict(Tail(q), now) ELSE q

\* len(self.alert_times) < self.max_alerts
UnderLimit(q) == Len(q) < MaxAlerts

\* RateLimiter.can_send_alert, run without interruption: the answer and the
\* deque afterwards.
CanSendAlert(q, now) ==
  LET e == Evict(q, now)
  IN IF UnderLimit(e) THEN [ok |-> TRUE, q |-> Append(e, now)]
     ELSE [ok |-> FALSE, q |-> e]

BelowOrAtThreshold(risk_score) == risk_score <= AlertMinRiskScore

\* record.risk_score < min_risk_threshold
BelowThreshold(risk_score) == risk_score < AlertMinRiskScore

\* should_send_alert
ShouldSendAlert(url, record) ==
  IF url = None THEN FALSE
  ELSE IF ~record.is_flagged THEN FALSE
  ELSE IF BelowThreshold(record.risk_score) THEN FALSE
  ELSE TRUE

\* What requests.post can do: answer 200, answer another status, or raise
\* (a connection error, or requests.Timeout after the 10 s timeout).
HttpOutcomes == {"200", "500", "raise"}

\* The status send_alert logs and the value it returns after the post.
PostStatus(http) == IF http = "200" THEN "sent" ELSE "failed"

PostResult(http) == http = "200"

\* _log_alert_to_database: the INSERT; when the connection, the INSERT or the
\* commit raises, the except clause logs the error and nothing is stored.
LogAlertToDatabase(table, record, status, error_message, db_ok, now) ==
  IF db_ok
  THEN Append(table,
         [request_id |-> record.id, alert_type |-> "slack",
          recipient |-> "slack_webhook", status |-> status,
          sent_at |-> IF status = "sent" THEN Some(now) ELSE None,
          error_message |-> error_message])
  ELSE table

\* A variant that lets the database error through.
AuditFailureRaises(db_ok) == ~db_ok

\* Whether _log_alert_to_database lets the database error out to its caller:
\* `except Exception` catches it.
LogAlertRaises(db_ok) == FALSE

\* send_alert on `record`, when the post does `http` and the audit INSERT
\* succeeds iff `db_ok`: the new limiter deque, alerts table and post list, and
\* the call's entry in the history.
SendAlertResult(record, http, db_ok) ==
  LET base == [id |-> record.id, risk_score |-> record.risk_score,
               is_flagged |-> record.is_flagged, eligible |-> FALSE,
               limited |-> FALSE, http |-> "none", db_ok |-> TRUE,
               result |-> FALSE, raised |-> FALSE]
      unchanged == [alert_times |-> alert_times, alerts |-> alerts,
                    posts |-> posts, admitted |-> admitted]
  IN IF ~ShouldSendAlert(webhook_url, record)
     THEN unchanged @@ [call |-> base]
     ELSE LET lim == CanSendAlert(alert_times, clock)
          IN IF ~lim.ok
             THEN [alert_times |-> lim.q,
                   alerts |-> LogAlertToDatabase(alerts, record, "rate_limited",
                                                 None, db_ok, clock),
                   posts |-> posts,
                   admitted |-> admitted,
                   call |-> [base EXCEPT !.eligible = TRUE, !.limited = TRUE,
                                         !.db_ok = db_ok,
                                         !.raised = LogAlertRaises(db_ok)]]
             ELSE [alert_times |-> lim.q,
                   alerts |-> LogAlertToDatabase(alerts, record, PostStatus(http),
                               IF http = "200" THEN None ELSE Some("error"),
                               db_ok, clock),
                   posts |-> posts + 1,
                   admitted |-> [admitted EXCEPT ![clock] = @ + 1],
                   call |-> [base EXCEPT !.eligible = TRUE, !.http = http,
                                         !.db_ok = db_ok,
                                         !.result = PostResult(http),
                                         !.raised = LogAlertRaises(db_ok)]]

\* The faults a send_alert call met: a post that did not answer 200, an audit
\* INSERT that failed.
PostFaultsOf(call) == IF call.http \in {"500", "raise"} THEN 1 ELSE 0

DbFaultsOf(call) == IF call.db_ok THEN 0 ELSE 1

\* The records handed to send_alert in the model (tests build records whose
\* is_flagged does not follow from risk_score).
AlertScores == {AlertMinRiskScore - 1, AlertMinRiskScore, ScoreCap}

\* SlackAlertService.send_alert, called by a single thread.  The record's id
\* (a fresh UUID) is the number of the eligible attempt.
SendAlert(risk_score, is_flagged, http, db_ok) ==
  /\ nsends < MaxSends
  /\ LET record == [id |-> nsends + 1, risk_score |-> risk_score,
                    is_flagged |-> is_flagged]
         r == SendAlertResult(record, http, db_ok)
     IN /\ alert_times' = r.alert_times
        /\ alerts' = r.alerts
        /\ posts' = r.posts
        /\ admitted' = r.admitted
        /\ last' = r.call
        /\ nsends' = IF r.call.eligible THEN nsends + 1 ELSE nsends
        /\ post_faults' = post_faults + PostFaultsOf(r.call)
        /\ db_faults' = db_faults + DbFaultsOf(r.call)
        /\ post_faults' + db_faults' <= MaxFaults
  /\ UNCHANGED <<detVars, clock, slack_webhook_url, webhook_url, limVars, loopVars,
                 cacheVars, cryptVars>>

\* Time passes.
Tick ==
  /\ clock < MaxClock
  /\ clock' = clock + 1
  /\ UNCHANGED <<detVars, alertVars, limVars, loopVars, cacheVars, cryptVars>>

\* ------------------------------------- can_send_alert, statement by statement

Threads == 1..NumThreads

LockIgnored == TRUE

\* `with self.lock:` is entered only while no thread holds the lock.
LockFree == lock = 0

limiterOthers ==
  <<detVars, slack_webhook_url, webhook_url, alerts, posts, nsends, last,
    post_faults, db_faults, loopVars, cacheVars, cryptVars>>

\* A thread calls can_send_alert and waits for the lock.
CallCanSend(t) ==
  /\ tpc[t] = "idle"
  /\ tpc' = [tpc EXCEPT ![t] = "lock"]
  /\ UNCHANGED <<clock, alert_times, admitted, lock, tnow, limiterOthers>>

\* with self.lock:
Acquire(t) ==
  /\ tpc[t] = "lock"
  /\ LockFree
  /\ lock' = t
  /\ tpc' = [tpc EXCEPT ![t] = "now"]
  /\ UNCHANGED <<clock, alert_times, admitted, tnow, limiterOthers>>

\* now = datetime.now()
ReadNow(t) ==
  /\ tpc[t] = "now"
  /\ tnow' = [tnow EXCEPT ![t] = clock]
  /\ tpc' = [tpc EXCEPT ![t] = "evict"]
  /\ UNCHANGED <<clock, alert_times, admitted, lock, limiterOthers>>

\* One test of the while condition, and one popleft when it holds.
EvictStep(t) ==
  /\ tpc[t] = "evict"
  /\ IF alert_times # <<>> /\ tnow[t] - Head(alert_times) > TimeWindow
     THEN alert_times' = Tail(alert_times) /\ tpc' = tpc
     ELSE alert_times' = alert_times /\ tpc' = [tpc EXCEPT ![t] = "check"]
  /\ UNCHANGED <<clock, admitted, lock, tnow, limiterOthers>>

\* if len(self.alert_times) < self.max_alerts:
CheckLimit(t) ==
  /\ tpc[t] = "check"
  /\ tpc' = [tpc EXCEPT ![t] = IF UnderLimit(alert_times) THEN "append" ELSE "unlock"]
  /\ UNCHANGED <<clock, alert_times, admitted, lock, tnow, limiterOthers>>

\* self.alert_times.append(now); return True: the attempt is admitted.
AppendNow(t) ==
  /\ tpc[t] = "append"
  /\ alert_times' = Append(alert_times, tnow[t])
  /\ admitted' = [admitted EXCEPT ![tnow[t]] = @ + 1]
  /\ tpc' = [tpc EXCEPT ![t] = "unlock"]
  /\ UNCHANGED <<clock, lock, tnow, limiterOthers>>

\* Leaving the with block releases the lock.
Release(t) ==
  /\ tpc[t] = "unlock"
  /\ lock' = 0
  /\ tpc' = [tpc EXCEPT ![t] = "idle"]
  /\ UNCHANGED <<clock, alert_times, admitted, tnow, limiterOthers>>

NoCall ==
  [id |-> 0, risk_score |-> 0, is_flagged |-> FALSE, eligible |-> FALSE, limited |-> FALSE, http |-> "none",
   db_ok |-> TRUE, result |-> FALSE, raised |-> FALSE]

\* SlackAlertService.__init__, under one of the given settings.
\* What a get_alert_stats call leaves as the last call: no alert, no request.
StatsCall == [NoCall EXCEPT !.http = "stats"]

\* get_alert_stats: the query for the counts, then get_next_available_time
\* and can_send_alert on the rate limiter; when the database is down the
\* except clause answers before the limiter is reached.
GetAlertStats(db_ok) ==
  /\ IF db_ok
     THEN /\ alert_times' = CanSendAlert(alert_times, clock).q
          /\ UNCHANGED db_faults
     ELSE /\ db_faults' = db_faults + 1
          /\ post_faults + db_faults' <= MaxFaults
          /\ UNCHANGED alert_times
  /\ last' = StatsCall
  /\ UNCHANGED <<detVars, clock, slack_webhook_url, webhook_url, alerts, posts,
                 nsends, post_faults, admitted, limVars, loopVars, cacheVars,
                 cryptVars>>

InitAlertService(settings) ==
  /\ clock = 0
  /\ slack_webhook_url \in settings
  /\ webhook_url = LoadWebhookConfig(slack_webhook_url)
  /\ alert_times = <<>>
  /\ alerts = <<>>
  /\ posts = 0
  /\ nsends = 0
  /\ last = NoCall
  /\ post_faults = 0
  /\ db_faults = 0
  /\ lock = 0
  /\ tpc = [t \in Threads |-> "idle"]
  /\ tnow = [t \in Threads |-> 0]
  /\ admitted = [t \in Ticks |-> 0]

\* ------------------------------------------------------- field encryption

\* A key text of n characters.
KeyText(c, n) == [i \in 1..n |-> c]

\* config.py:36, the shipped value 'your-secret-key-here-32-chars-min'
\* (33 characters).
PlaceholderKey == KeyText("p", 33)

\* The values settings.encryption_key takes in the model: unset, the
\* placeholder, one character short, and two keys that are long enough.
KeyConfigs ==
  { <<>>, PlaceholderKey, KeyText("k", MinKeyLength - 1),
    KeyText("k", MinKeyLength), KeyText("q", MinKeyLength + 1) }

\* The settings of a deployment without a usable secret: unset, the
\* placeholder, one character short.
UnusableKeyConfigs ==
  { <<>>, PlaceholderKey, KeyText("k", MinKeyLength - 1) }

\* _generate_field_keys: fields
Fields == {"prompt", "response", "headers"}

\* The field names callers pass: the three with a key and one without.
FieldNames == Fields \cup {"metadata"}

\* The prefix is_encrypted looks for ('gAAAAA' in the code: the first
\* characters of every Fernet token).
Marker == <<"g", "A">>

\* The (timestamp, IV) pairs of the model, as characters of a token.
Nonces == { ToString(n) : n \in 1..MaxNonce }

\* PBKDF2HMAC(salt = "shadow_ai_" + field).derive(master_key): one key for
\* each master key and field.
DeriveKey(master, field) == [master |-> master[1], field |-> field]

\* Fernet.encrypt: a token that starts with the marker and is determined by
\* the key, the drawn timestamp and IV, and the plaintext.
FernetEncrypt(key, nonce, text) ==
  Marker \o <<key.master, key.field, nonce>> \o text

\* A variant that accepts the tokens of every master key.
FernetValidAnyKey(key, token) ==
  /\ Len(token) >= Len(Marker) + 3
  /\ SubSeq(token, 1, Len(Marker)) = Marker
  /\ token[Len(Marker) + 2] = key.field

\* Whether Fernet.decrypt under `key` accepts the token (its HMAC verifies).
FernetValid(key, token) ==
  /\ Len(token) >= Len(Marker) + 3
  /\ SubSeq(token, 1, Len(Marker)) = Marker
  /\ token[Len(Marker) + 1] = key.master
  /\ token[Len(Marker) + 2] = key.field
  /\ token[Len(Marker) + 3] \in Nonces

\* Fernet.decrypt of a token it accepts.
FernetDecrypt(key, token) == SubSeq(token, Len(Marker) + 4, Len(token))

\* A stored token with one character changed.
Tamper(token) == [token EXCEPT ![Len(Marker) + 1] = "!"]

\* not encryption_key or encryption_key == 'your-secret-key-here-32-chars-min'
NotConfigured(key) == key = <<>> \/ key = PlaceholderKey

\* A variant without the check of the key's length.
KeyNeverTooShort(key) == FALSE

\* len(encryption_key) < 32
KeyTooShort(key) == Len(key) < MinKeyLength

\* _generate_field_keys
GenerateFieldKeys(master) ==
  IF master = <<>>
  THEN [f \in {} |-> 0]
  ELSE [f \in Fields |-> DeriveKey(master, f)]

\* _initialize_encryption: the service's fields after construction.
InitializeEncryption(key) ==
  IF NotConfigured(key) \/ KeyTooShort(key)
  THEN [master_key |-> <<>>, enabled |-> FALSE, field_keys |-> GenerateFieldKeys(<<>>)]
  ELSE [master_key |-> key, enabled |-> TRUE, field_keys |-> GenerateFieldKeys(key)]

\* not data: None or the empty string.
Empty(data) == data = None \/ data = Some(<<>>)

\* A variant that never takes a value for ciphertext.
NeverEncrypted(data) == FALSE

\* is_encrypted: data.startswith('gAAAAA')
IsEncrypted(data) ==
  /\ ~Empty(data)
  /\ Len(data[1]) >= Len(Marker)
  /\ SubSeq(data[1], 1, Len(Marker)) = Marker

\* A variant of encrypt_field without the check for the marker.
EncryptsAgain(data) == FALSE

\* encrypt_field: if self.is_encrypted(data): return data
AlreadyEncrypted(data) == IsEncrypted(data)

\* A variant of decrypt_field that takes every value for plain text.
AlwaysPlain(data) == TRUE

\* decrypt_field: if not self.is_encrypted(data): return data
NotEncrypted(data) == ~IsEncrypted(data)

\* encrypt_field
EncryptField(enabled, keys, field_name, data, nonce) ==
  IF Empty(data) THEN data
  ELSE IF ~enabled THEN data
  ELSE IF field_name \notin DOMAIN keys THEN data
  ELSE IF AlreadyEncrypted(data) THEN data
  ELSE Some(FernetEncrypt(keys[field_name], nonce, data[1]))

\* decrypt_field, except Exception: "Return original data if decryption fails"
DecryptFailure(data) == data

\* decrypt_field
DecryptField(enabled, keys, field_name, data) ==
  IF Empty(data) THEN data
  ELSE IF ~enabled THEN data
  ELSE IF field_name \notin DOMAIN keys THEN data
  ELSE IF NotEncrypted(data) THEN data
  ELSE IF FernetValid(keys[field_name], data[1])
       THEN Some(FernetDecrypt(keys[field_name], data[1]))
       ELSE DecryptFailure(data)

\* The strings callers hand to the service first: empty, plain, the marker
\* alone, and plain text that begins with the marker.
PlainTexts == { <<>>, <<"a">>, Marker, Marker \o <<"a">> }

\* No value is on its way.
IdleCell ==
  [stage |-> "idle", field |-> "prompt", x |-> None, out |-> None, c |-> None,
   d |-> None, e |-> None, clean |-> TRUE, key |-> <<>>, read_key |-> <<>>,
   old |-> None, again |-> FALSE]

cryptOthers ==
  <<detVars, clock, alertVars, limVars, loopVars, cacheVars>>

\* What a caller can hand in: None, one of the strings above, or a value of
\* the last pass (as stored, decrypted or encrypted again).
CallerInputs ==
  {None} \cup { Some(p) : p \in PlainTexts } \cup {cell.c, cell.d, cell.e}

\* The keys rotate_keys is called with.
RotationKeys == KeyConfigs \ {<<>>}

\* The value was encrypted for the field under another master key than the
\* one installed now.
EncryptedBeforeRotation(field_name, data) ==
  /\ cell.stage \in {"encrypted", "decrypted", "reencrypted"}
  /\ cell.key # master_key
  /\ cell.field = field_name
  /\ cell.x = data

\* A caller takes up a value for a field; when it is the value of the last
\* pass and the keys were rotated since, the caller keeps the ciphertext of
\* that pass to compare.
NewInput(field_name, data) ==
  /\ cell' = [IdleCell EXCEPT
                !.stage = "new", !.field = field_name, !.x = data,
                !.again = EncryptedBeforeRotation(field_name, data),
                !.old = IF EncryptedBeforeRotation(field_name, data)
                        THEN cell.out ELSE None]
  /\ UNCHANGED <<encryption_key, master_key, encryption_enabled, field_keys,
                 cryptOthers>>

\* encrypt_field(field, x)
CallEncrypt(nonce) ==
  /\ cell.stage = "new"
  /\ LET encrypted == EncryptField(encryption_enabled, field_keys,
                                   cell.field, cell.x, nonce)
     IN cell' = [cell EXCEPT !.out = encrypted, !.c = encrypted,
                             !.key = master_key, !.stage = "encrypted"]
  /\ UNCHANGED <<encryption_key, master_key, encryption_enabled, field_keys,
                 cryptOthers>>

\* The stored value is changed outside the service.
TamperStored ==
  /\ cell.stage = "encrypted"
  /\ IsEncrypted(cell.c)
  /\ Len(cell.c[1]) > Len(Marker)
  /\ cell' = [cell EXCEPT !.c = Some(Tamper(cell.c[1])), !.clean = FALSE]
  /\ UNCHANGED <<encryption_key, master_key, encryption_enabled, field_keys,
                 cryptOthers>>

\* decrypt_field(field, c)
CallDecrypt ==
  /\ cell.stage = "encrypted"
  /\ cell' = [cell EXCEPT
                !.d = DecryptField(encryption_enabled, field_keys, cell.field,
                                   cell.c),
                !.read_key = master_key,
                !.stage = "decrypted"]
  /\ UNCHANGED <<encryption_key, master_key, encryption_enabled, field_keys,
                 cryptOthers>>

\* encrypt_field(field, d)
CallEncryptAgain(nonce) ==
  /\ cell.stage = "decrypted"
  /\ cell' = [cell EXCEPT
                !.e = EncryptField(encryption_enabled, field_keys, cell.field,
                                   cell.d, nonce),
                !.stage = "reencrypted"]
  /\ UNCHANGED <<encryption_key, master_key, encryption_enabled, field_keys,
                 cryptOthers>>

\* A variant that leaves the field keys as they are.
KeepsFieldKeys(new_master_key) == field_keys

\* rotate_keys: self.field_keys = {}; self._generate_field_keys()
RotatedFieldKeys(new_master_key) == GenerateFieldKeys(new_master_key)

\* rotate_keys(new_master_key): refused when the key is short; otherwise the
\* field keys are derived anew (encryption_enabled is left as it is).
RotateKeys(new_master_key) ==
  /\ IF Len(new_master_key) < MinKeyLength
     THEN UNCHANGED <<master_key, field_keys, cell>>
     ELSE /\ master_key' = new_master_key
          /\ field_keys' = RotatedFieldKeys(new_master_key)
          /\ cell' = [cell EXCEPT !.clean = FALSE]
  /\ UNCHANGED <<encryption_key, encryption_enabled, cryptOthers>>

\* EncryptionService(): the module-level instance, built from the settings.
InitEncryptionService(keys) ==
  /\ encryption_key \in keys
  /\ master_key = InitializeEncryption(encryption_key).master_key
  /\ encryption_enabled = InitializeEncryption(encryption_key).enabled
  /\ field_keys = InitializeEncryption(encryption_key).field_keys
  /\ cell = IdleCell

\* ------------------------------------------------------------ consume loop

\* batch_size = min(settings.max_poll_records, 100)
BatchSize == Min(MaxPollRecords, BatchCeiling)

\* The bodies of well-formed messages: prompt and model as sent.
ValidPayloads ==
  { [prompt |-> <<"A", "b">>, model |-> <<"M">>],
    [prompt |-> <<"B">>, model |-> <<"o">>],
    [prompt |-> <<"x">>, model |-> <<"o", " ">>] }

\* Messages whose value json.loads or LLMRequest(**data) rejects: invalid
\* JSON, a timestamp no format parses, a required field missing.
UnparseableKinds == {"bad_json", "bad_timestamp", "missing_field"}

\* A variant that accepts a timestamp no format parses.
ParsesLeniently(kind) == kind \in {"valid", "bad_timestamp"}

\* Whether _parse_message returns a record for a message of this kind (it
\* raises otherwise).
Parses(kind) == kind = "valid"

\* _parse_message on a well-formed message: the validators lower-case and
\* strip the model; the id is a fresh UUID (here the message's offset).
ParseMessage(payload, offset) ==
  NewRecord(offset, payload.prompt, Lower(Strip(payload.model)))

\* A variant that flushes one record late.
BatchOverfull(n) == n > BatchSize

\* len(batch_records) >= batch_size
BatchFull(n) == n >= BatchSize

alertOthers == <<slack_webhook_url, webhook_url, limVars>>

\* The call self._process_batch(batch_records): `records` is the pending
\* batch itself, and the caller's batch_records = [] runs when it returns.
StartFlush(records, back) ==
  /\ pc' = "detect"
  /\ flushing' = records
  /\ alert_idx' = 1
  /\ resume' = back

\* A variant that waits for a full batch.
FlushesWhenFullOnly(batch) == Len(batch) >= BatchSize

\* if batch_records: (on a poll that returned None)
FlushesOnEmptyPoll(batch) == batch # <<>>

\* poll() returned None: a pending batch is processed.
PollNone ==
  /\ pc = "poll" /\ running
  /\ polled' = [kind |-> "none", offset |-> position]
  /\ IF FlushesOnEmptyPoll(batch_records)
     THEN StartFlush(batch_records, "poll")
     ELSE UNCHANGED <<pc, flushing, alert_idx, resume>>
  /\ UNCHANGED <<procVars, dbVars, cacheVars, cryptVars, detVars, clock, alertVars, limVars, running, batch_records,
                 messages_processed, messages_failed, position, committed,
                 dlq, store>>

\* poll() returned an error event (_PARTITION_EOF or another): logged, and
\* the loop continues.
PollError(code) ==
  /\ pc = "poll" /\ running
  /\ UNCHANGED vars

\* poll() returned a message that parses: it joins the batch, and the batch is
\* processed when it has reached batch_size.
PollRecord(payload) ==
  /\ pc = "poll" /\ running
  /\ position < MaxMessages
  /\ position' = position + 1
  /\ polled' = [kind |-> "valid", offset |-> position + 1]
  /\ LET kind == "valid"
         batch == IF Parses(kind)
                  THEN Append(batch_records, ParseMessage(payload, position + 1))
                  ELSE batch_records
     IN /\ batch_records' = batch
        /\ IF BatchFull(Len(batch))
           THEN StartFlush(batch, "poll")
           ELSE UNCHANGED <<pc, flushing, alert_idx, resume>>
  /\ UNCHANGED <<procVars, dbVars, cacheVars, cryptVars, detVars, clock, alertVars, limVars, running,
                 messages_processed, messages_failed, committed, dlq, store>>

\* poll() returned a message _parse_message raises on: the except clause
\* counts it, calls _send_to_dlq and continues.
PollUnparseable(kind) ==
  /\ pc = "poll" /\ running
  /\ position < MaxMessages
  /\ position' = position + 1
  /\ polled' = [kind |-> kind, offset |-> position + 1]
  /\ IF Parses(kind)
     THEN /\ batch_records' = Append(batch_records,
                                NewRecord(position + 1, <<>>, <<>>))
          /\ UNCHANGED <<messages_failed, dlq>>
     ELSE /\ messages_failed' = messages_failed + 1
          /\ dlq' = dlq + 1
          /\ UNCHANGED batch_records
  /\ UNCHANGED <<procVars, dbVars, cacheVars, cryptVars, detVars, clock, alertVars, limVars, running, pc, flushing,
                 alert_idx, resume, messages_processed, committed, store>>

\* poll() returned a message whose value is None: msg.value().decode raises
\* AttributeError in _parse_message and again in _send_to_dlq (after its
\* error line), inside the except clause: the exception leaves the while loop.
PollNullValue ==
  /\ pc = "poll" /\ running
  /\ position < MaxMessages
  /\ position' = position + 1
  /\ polled' = [kind |-> "null_value", offset |-> position + 1]
  /\ messages_failed' = messages_failed + 1
  /\ dlq' = dlq + 1
  /\ pc' = "finally"
  /\ UNCHANGED <<procVars, dbVars, cacheVars, cryptVars, detVars, clock, alertVars, limVars, running, batch_records,
                 flushing, alert_idx, resume, messages_processed, committed,
                 store>>

\* A variant that leaves without processing what is pending.
DropsPending(batch) == FALSE

\* if batch_records: (in the finally clause)
HasPending(batch) == batch # <<>>

\* The finally clause of _consume_loop: a pending batch is processed.
Finally ==
  /\ pc = "finally"
  /\ IF HasPending(batch_records)
     THEN StartFlush(batch_records, "exit")
     ELSE /\ pc' = "exit"
          /\ UNCHANGED <<flushing, alert_idx, resume>>
  /\ UNCHANGED <<procVars, dbVars, cacheVars, cryptVars, detVars, clock, alertVars, limVars, running, batch_records,
                 messages_processed, messages_failed, position, committed,
                 polled, dlq, store>>

\* _process_batch: self.detection_engine.process_batch(records)
Detect ==
  /\ pc = "detect"
  /\ LET r == ProcessBatchResult(flushing, rules, EngineState, total_processed)
     IN /\ flushing' = r.records
        /\ compiled' = r.st.cache
        /\ regex_errors' = r.st.errors
        /\ rule_hit_count' = r.st.hits
        /\ total_flagged' = r.st.flagged
        /\ total_processed' = r.processed
  /\ returned' = flushing'
  /\ pc' = "alerts"
  /\ UNCHANGED <<procVars, dbVars, cacheVars, cryptVars, rules, clock, alertVars, limVars, running, batch_records,
                 alert_idx, resume, messages_processed, messages_failed,
                 position, committed, polled, dlq, store>>

\* _send_alerts, one record of the batch: send_alert is called for a flagged
\* record, and an exception it raised would be caught and logged here.
SendAlertsStep(http, db_ok) ==
  /\ pc = "alerts"
  /\ LET record == flushing[alert_idx]
     IN IF record.is_flagged
        THEN LET r == SendAlertResult(record, http, db_ok)
             IN /\ alert_times' = r.alert_times
                /\ alerts' = r.alerts
                /\ posts' = r.posts
                /\ admitted' = r.admitted
                /\ last' = r.call
                /\ nsends' = IF r.call.eligible THEN nsends + 1 ELSE nsends
                /\ post_faults' = post_faults + PostFaultsOf(r.call)
                /\ db_faults' = db_faults + DbFaultsOf(r.call)
                /\ post_faults' + db_faults' <= MaxFaults
        ELSE UNCHANGED <<alert_times, alerts, posts, admitted, last, nsends,
                         post_faults, db_faults>>
  /\ alert_idx' = alert_idx + 1
  /\ pc' = IF alert_idx = Len(flushing) THEN "persist" ELSE "alerts"
  /\ UNCHANGED <<procVars, dbVars, cacheVars, cryptVars, detVars, clock, alertOthers, running, batch_records, flushing,
                 resume, messages_processed, messages_failed, position,
                 committed, polled, dlq, store>>

\* How the bulk insert's transaction can end: committed, failed before
\* execute_batch returned (connecting, encrypting, executing), or failed in
\* conn.commit().
InsertOutcomes == {"ok", "execute_fails", "commit_fails"}

\* Whether the plain INSERT meets an identifier a second time: one already
\* in the table, or one that occurs twice in the batch.
IdConflict(table, records) ==
  \/ \E i \in 1..Len(records), j \in 1..Len(table) : records[i].id = table[j].id
  \/ \E i, j \in 1..Len(records) : i # j /\ records[i].id = records[j].id

\* The (timestamp, IV) pairs drawn while n records are encrypted: none when
\* encryption is off.
NonceDraws(n) ==
  IF encryption_enabled THEN [1..n -> Nonces] ELSE { [i \in 1..n |-> "1"] }

\* bulk_insert_llm_requests, the loop over the records: encrypt_prompt on
\* each prompt before the row is built.
EncryptRecords(records, nonces) ==
  [i \in 1..Len(records) |->
     [records[i] EXCEPT !.prompt =
        EncryptField(encryption_enabled, field_keys, "prompt",
                     Some(records[i].prompt), nonces[i])[1]]]

\* bulk_insert_llm_requests: the number it returns, and the table after: one
\* transaction, all rows or none. successful_inserts is set once
\* execute_batch has returned, before conn.commit().
BulkInsert(table, records, outcome, pk) ==
  CASE outcome = "ok" ->
         IF pk /\ IdConflict(table, records)
         THEN [count |-> 0, table |-> table]
         ELSE [count |-> Len(records), table |-> table \o records]
    [] outcome = "execute_fails" -> [count |-> 0, table |-> table]
    [] outcome = "commit_fails" -> [count |-> Len(records), table |-> table]

\* The records handed to the sink directly: two bodies under each
\* identifier, and the batches of them a consumer can build (no identifier
\* twice in one batch).
StoreRecords ==
  { ParseMessage(m, id) : m \in { v \in ValidPayloads : Len(v.prompt) = 1 },
                          id \in 1..MaxBatch }

StoreBatches ==
  UNION { { b \in [1..n -> StoreRecords] :
              \A i, j \in 1..n : i # j => b[i].id # b[j].id }
          : n \in 1..MaxBatch }

\* bulk_insert_llm_requests(records) on a database that is up.
BulkInsertLlmRequests(records) ==
  /\ Len(store) + Len(records) <= MaxStored
  /\ \E nonces \in NonceDraws(Len(records)) :
       LET r == BulkInsert(store, EncryptRecords(records, nonces), "ok",
                           primary_key)
       IN /\ store' = r.table
          /\ inserted' = r.count
  /\ flushing' = records
  /\ UNCHANGED <<detVars, clock, alertVars, limVars, cacheVars, cryptVars, procVars,
                 primary_key, running, pc, batch_records, alert_idx, resume,
                 messages_processed, messages_failed, position, committed,
                 polled, dlq>>

\* _process_batch: the bulk insert and the counters; then the caller empties
\* its batch (in the loop) or leaves (in the finally clause).
Persist(outcome) ==
  /\ pc = "persist"
  /\ \E nonces \in NonceDraws(Len(flushing)) :
       LET r == BulkInsert(store, EncryptRecords(flushing, nonces), outcome,
                           primary_key)
       IN /\ store' = r.table
          /\ inserted' = r.count
          /\ messages_processed' = messages_processed + r.count
          /\ messages_failed' = IF r.count < Len(flushing)
                                THEN messages_failed + (Len(flushing) - r.count)
                                ELSE messages_failed
  /\ db_faults' = IF outcome = "ok" THEN db_faults ELSE db_faults + 1
  /\ post_faults + db_faults' <= MaxFaults
  /\ pc' = resume
  /\ batch_records' = IF resume = "poll" THEN <<>> ELSE batch_records
  /\ flushing' = <<>>
  /\ UNCHANGED <<procVars, primary_key, cacheVars, cryptVars, detVars, clock, slack_webhook_url, webhook_url, alert_times,
                 alerts, posts, nsends, last, post_faults, admitted, limVars,
                 running, alert_idx, resume, position, committed, polled, dlq>>

\* enable.auto.commit: the client commits the consumer's position in the
\* background.
AutoCommit ==
  /\ committed < position
  /\ committed' = position
  /\ UNCHANGED <<procVars, dbVars, cacheVars, cryptVars, detVars, clock, alertVars, limVars, running, pc, batch_records,
                 flushing, alert_idx, resume, messages_processed,
                 messages_failed, position, polled, dlq, store>>

\* Where the main thread is interrupted by a termination signal, as far as
\* the outcome differs: SystemExit is raised and unwinds from the interrupted
\* statement; it is raised in _process_batch after the bulk insert has
\* committed; it is raised there after the counters were updated as well,
\* before the loop has emptied its batch; or it is raised inside the bare
\* except of is_encrypted during the bulk insert and swallowed there, so that
\* only the flag has changed.
SignalPoints == {"raised", "raised_after_insert", "raised_after_count", "swallowed"}

\* signal_handler: consumer.stop_consuming() and sys.exit(0), run in the main
\* thread while it is in the loop. No except clause of the loop or of
\* _process_batch catches SystemExit, so the finally clause runs next.
Signal(point) ==
  /\ running /\ resume = "poll"
  /\ pc \in {"poll", "detect", "alerts", "persist"}
  /\ point # "raised" => pc = "persist"
  /\ running' = FALSE
  /\ CASE point = "raised" ->
            /\ pc' = "finally"
            /\ flushing' = <<>>
            /\ UNCHANGED <<store, inserted, messages_processed, messages_failed>>
       [] point = "raised_after_insert" ->
            /\ \E nonces \in NonceDraws(Len(flushing)) :
                 LET r == BulkInsert(store, EncryptRecords(flushing, nonces),
                                     "ok", primary_key)
                 IN /\ store' = r.table
                    /\ inserted' = r.count
            /\ pc' = "finally"
            /\ flushing' = <<>>
            /\ UNCHANGED <<messages_processed, messages_failed>>
       [] point = "raised_after_count" ->
            /\ \E nonces \in NonceDraws(Len(flushing)) :
                 LET r == BulkInsert(store, EncryptRecords(flushing, nonces),
                                     "ok", primary_key)
                 IN /\ store' = r.table
                    /\ inserted' = r.count
                    /\ messages_processed' = messages_processed + r.count
                    /\ messages_failed' =
                         IF r.count < Len(flushing)
                         THEN messages_failed + (Len(flushing) - r.count)
                         ELSE messages_failed
            /\ pc' = "finally"
            /\ flushing' = <<>>
       [] point = "swallowed" ->
            UNCHANGED <<pc, flushing, store, inserted, messages_processed,
                        messages_failed>>
  /\ UNCHANGED <<procVars, primary_key, cacheVars, cryptVars, detVars, clock, alertVars,
                 limVars, batch_records, alert_idx, resume, position, committed,
                 polled, dlq>>

\* while self.running: the flag is found cleared and the loop ends.
LoopExit ==
  /\ pc = "poll" /\ ~running
  /\ pc' = "finally"
  /\ UNCHANGED <<procVars, dbVars, cacheVars, cryptVars, detVars, clock, alertVars, limVars,
                 running, batch_records, flushing, alert_idx, resume,
                 messages_processed, messages_failed, position, committed,
                 polled, dlq, store>>

\* start_consuming's finally clause: cleanup() closes the upstream consumer.
Cleanup ==
  /\ pc = "exit"
  /\ pc' = "closed"
  /\ UNCHANGED <<procVars, dbVars, cacheVars, cryptVars, detVars, clock, alertVars, limVars,
                 running, batch_records, flushing, alert_idx, resume,
                 messages_processed, messages_failed, position, committed,
                 polled, dlq, store>>

\* main after start_consuming: SystemExit(0) from the handler, or a normal
\* return once the flag stopped the loop, ends the process with status 0; an
\* exception that left the loop ends it with sys.exit(1).
ExitProcess ==
  /\ pc = "closed"
  /\ pc' = "done"
  /\ exit_status' = Some(IF running THEN 1 ELSE 0)
  /\ UNCHANGED <<attempt, ready, dbVars, cacheVars, cryptVars, detVars, clock, alertVars,
                 limVars,
                 running, batch_records, flushing, alert_idx, resume,
                 messages_processed, messages_failed, position, committed,
                 polled, dlq, store>>

\* LLMTrafficConsumer.__init__ and start_consuming up to the loop.
InitConsumer ==
  /\ running = TRUE
  /\ pc = "poll"
  /\ batch_records = <<>>
  /\ flushing = <<>>
  /\ alert_idx = 1
  /\ resume = "poll"
  /\ messages_processed = 0
  /\ messages_failed = 0
  /\ position = 0
  /\ committed = 0
  /\ polled = [kind |-> "none", offset |-> 0]
  /\ dlq = 0
  /\ store = <<>>
  /\ inserted = 0
  /\ attempt = 0
  /\ exit_status = None
  /\ ready = {"storage", "upstream"}

\* A variant that gives up at the first failed attempt.
BudgetSpentAtOnce(n) == TRUE

\* attempt < max_retries - 1 is false: this was the last attempt.
BudgetSpent(n) == n >= MaxRetries - 1

\* What main leaves unchanged before the loop runs.
startOthers ==
  <<dbVars, cacheVars, cryptVars, detVars, clock, alertVars, limVars, batch_records,
    flushing, alert_idx, resume, messages_processed, messages_failed, position,
    committed, polled, dlq, store>>

\* sys.exit(1) before the loop has run.
FailStartup ==
  /\ pc' = "done"
  /\ exit_status' = Some(1)

\* wait_for_dependencies, one turn of the database loop: test_connection
\* succeeds and the loop is left, or it fails and the function sleeps and
\* retries, or exits with status 1 after the last attempt.
TestDatabase(ok) ==
  /\ pc = "wait_db"
  /\ IF ok
     THEN /\ pc' = "wait_kafka"
          /\ ready' = ready \cup {"storage"}
          /\ UNCHANGED <<attempt, exit_status>>
     ELSE IF BudgetSpent(attempt)
          THEN /\ FailStartup
               /\ UNCHANGED <<attempt, ready>>
          ELSE /\ attempt' = attempt + 1
               /\ UNCHANGED <<pc, exit_status, ready>>
  /\ UNCHANGED <<running, startOthers>>

\* wait_for_dependencies, the upstream check: list_topics answers and the
\* function returns, or it raises and the process exits with status 1.
TestKafka(ok) ==
  /\ pc = "wait_kafka"
  /\ IF ok
     THEN /\ pc' = "start"
          /\ ready' = ready \cup {"upstream"}
          /\ attempt' = 0
          /\ UNCHANGED exit_status
     ELSE /\ FailStartup
          /\ UNCHANGED <<attempt, ready>>
  /\ UNCHANGED <<running, startOthers>>

\* LLMTrafficConsumer() and start_consuming up to the loop: the database is
\* tested once more; on failure the exception passes cleanup and main exits
\* with status 1, otherwise the topic is subscribed and the flag is set.
StartConsuming(ok) ==
  /\ pc = "start"
  /\ IF ok
     THEN /\ pc' = "poll"
          /\ running' = TRUE
          /\ UNCHANGED exit_status
     ELSE /\ FailStartup
          /\ UNCHANGED running
  /\ UNCHANGED <<attempt, ready, startOthers>>

\* The process when main is entered: nothing is checked, no consumer exists.
InitProcess ==
  /\ running = FALSE
  /\ pc = "wait_db"
  /\ batch_records = <<>>
  /\ flushing = <<>>
  /\ alert_idx = 1
  /\ resume = "poll"
  /\ messages_processed = 0
  /\ messages_failed = 0
  /\ position = 0
  /\ committed = 0
  /\ polled = [kind |-> "none", offset |-> 0]
  /\ dlq = 0
  /\ store = <<>>
  /\ inserted = 0
  /\ attempt = 0
  /\ exit_status = None
  /\ ready = {}

\* ----------------------------------------------------------------- rule cache

\* The refresh interval in ticks.
RefreshInterval == (RefreshIntervalSeconds * TicksPerMinute) \div 60

\* datetime.min: further back than any interval.
DatetimeMin == 0 - (RefreshInterval + 1)

\* now - self._last_refresh > self._refresh_interval
Expired(now, refreshed) == now - refreshed > RefreshInterval

\* What a fetch of the rule store can give: a result set, or an exception
\* (which _refresh_rules catches and logs).
FetchFailed == [ok |-> FALSE, rows |-> <<>>]

CacheSnapshots ==
  { s \in RuleSnapshots : Len(s) >= 1 /\ \A i \in 1..Len(s) : s[i].name \in {<<"k">>, <<"r">>} }

FetchResults == {FetchFailed} \cup { [ok |-> TRUE, rows |-> s] : s \in CacheSnapshots }

\* A thread outside get_rules and force_refresh_rules.
IdleCaller ==
  [pc |-> "idle", op |-> "none", now |-> 0, stale |-> FALSE, fetched |-> FALSE,
   fresh |-> FALSE, ret |-> <<>>]

CacheLockIgnored == TRUE

\* with self._lock: the lock can be taken
CacheLockFree == rc_lock = 0

cacheOthers ==
  <<compiled, regex_errors, total_processed, total_flagged, rule_hit_count,
    returned, clock, alertVars, limVars, loopVars, cryptVars>>

\* A thread calls get_rules, or force_refresh_rules.
CallRuleCache(t, op) ==
  /\ caller[t].pc = "idle"
  /\ caller' = [caller EXCEPT ![t] = [IdleCaller EXCEPT !.pc = "lock", !.op = op]]
  /\ UNCHANGED <<rules, last_refresh, fetched_at, rc_lock, cacheOthers>>

\* with self._lock (entered)
AcquireCache(t) ==
  /\ caller[t].pc = "lock"
  /\ CacheLockFree
  /\ rc_lock' = t
  /\ caller' = [caller EXCEPT ![t].pc = IF caller[t].op = "get" THEN "check" ELSE "force"]
  /\ UNCHANGED <<rules, last_refresh, fetched_at, cacheOthers>>

\* get_rules: now = datetime.now() and the test of the snapshot's age.
CheckExpiry(t) ==
  /\ caller[t].pc = "check"
  /\ caller' = [caller EXCEPT ![t].now = clock,
                              ![t].stale = Expired(clock, fetched_at),
                              ![t].pc = IF Expired(clock, last_refresh)
                                        THEN "fetch" ELSE "return"]
  /\ UNCHANGED <<rules, last_refresh, fetched_at, rc_lock, cacheOthers>>

\* A variant that empties the list first and fills it in place.
RefreshRulesInPlace(current, result) == result.rows

\* _refresh_rules: self._rules becomes the fetched list, or stays when the
\* fetch raised.
RefreshRules(current, result) == IF result.ok THEN result.rows ELSE current

\* A variant without the except clause.
RefreshPropagates(result) == ~result.ok

\* _refresh_rules: except Exception logs the error; nothing reaches the
\* caller.
RefreshRaises(result) == FALSE

\* get_rules: self._refresh_rules() and self._last_refresh = now
Refresh(t, result) ==
  /\ caller[t].pc = "fetch"
  /\ rules' = RefreshRules(rules, result)
  /\ fetched_at' = IF result.ok THEN caller[t].now ELSE fetched_at
  /\ last_refresh' = caller[t].now
  /\ caller' = [caller EXCEPT ![t].fetched = TRUE,
                              ![t].fresh = result.ok,
                              ![t].pc = IF RefreshRaises(result)
                                        THEN "raised" ELSE "return"]
  /\ UNCHANGED <<rc_lock, cacheOthers>>

\* get_rules: return self._rules.copy(), leaving the lock
ReturnRules(t) ==
  /\ caller[t].pc = "return"
  /\ caller' = [caller EXCEPT ![t].ret = rules, ![t].pc = "idle"]
  /\ rc_lock' = IF rc_lock = t THEN 0 ELSE rc_lock
  /\ UNCHANGED <<rules, last_refresh, fetched_at, cacheOthers>>

\* force_refresh_rules: the fetch and the stamp under the lock, then the
\* lock is left.
ForceRefresh(t, result) ==
  /\ caller[t].pc = "force"
  /\ rules' = RefreshRules(rules, result)
  /\ fetched_at' = IF result.ok THEN clock ELSE fetched_at
  /\ last_refresh' = clock
  /\ caller' = [caller EXCEPT ![t].now = clock, ![t].fetched = TRUE,
                              ![t].fresh = result.ok,
                              ![t].pc = IF RefreshRaises(result)
                                        THEN "raised" ELSE "idle"]
  /\ rc_lock' = IF rc_lock = t THEN 0 ELSE rc_lock
  /\ UNCHANGED cacheOthers

\* RuleCache.__init__: no rules, never refreshed.
InitRuleCache ==
  /\ last_refresh = DatetimeMin
  /\ fetched_at = DatetimeMin
  /\ rc_lock = 0
  /\ caller = [t \in Threads |-> IdleCaller]

\* The schema of llm_requests: whether id is a primary key.
InitSchema(keys) == primary_key \in keys

\* RuleCache.__init__ and DetectionEngine.__init__, followed by the first
\* fetch of the rule store.
InitEngine(snapshots) ==
  /\ rules \in snapshots
  /\ last_refresh = 0
  /\ fetched_at = 0
  /\ rc_lock = 0
  /\ caller = [t \in Threads |-> IdleCaller]
  /\ compiled = {}
  /\ regex_errors = 0
  /\ total_processed = 0
  /\ total_flagged = 0
  /\ rule_hit_count = <<>>
  /\ returned = <<>>

\* ---------------------------------------------------------- specifications

\* The detection engine alone: process_batch on any batch, any snapshot.
InitDetect ==
  /\ InitEngine(RuleSnapshots)
  /\ InitAlertService({PlaceholderWebhook})
  /\ InitConsumer
  /\ InitSchema({TRUE})
  /\ InitEncryptionService({PlaceholderKey})

NextDetect == \E records \in InputBatches : ProcessBatch(records)

SpecDetect == InitDetect /\ [][NextDetect]_vars

\* The alert service alone, called by one thread.
InitAlert ==
  /\ InitEngine({<<>>})
  /\ InitAlertService(WebhookSettings)
  /\ InitConsumer
  /\ InitSchema({TRUE})
  /\ InitEncryptionService({PlaceholderKey})

NextAlert ==
  \/ \E risk_score \in AlertScores, is_flagged \in BOOLEAN,
        http \in HttpOutcomes, db_ok \in BOOLEAN :
       SendAlert(risk_score, is_flagged, http, db_ok)
  \/ Tick

SpecAlert == InitAlert /\ [][NextAlert]_vars

\* send_alert while the webhook answers 200 and the database is up.
NextDeliver ==
  \/ \E risk_score \in AlertScores, is_flagged \in BOOLEAN :
       SendAlert(risk_score, is_flagged, "200", TRUE)
  \/ Tick

SpecDeliver == InitAlert /\ [][NextDeliver]_vars

\* The alert service while its statistics are read (get_stats of the
\* consumer, get_alert_stats) between the sends.
NextStats ==
  \/ \E risk_score \in AlertScores, is_flagged \in BOOLEAN :
       SendAlert(risk_score, is_flagged, "200", TRUE)
  \/ \E db_ok \in BOOLEAN : GetAlertStats(db_ok)
  \/ Tick

SpecStats == InitAlert /\ [][NextStats]_vars

\* The rate limiter called by several threads at once.
InitLimiter ==
  /\ InitEngine({<<>>})
  /\ InitAlertService({"https://hooks.slack.com/services/T/B/X"})
  /\ InitConsumer
  /\ InitSchema({TRUE})
  /\ InitEncryptionService({PlaceholderKey})

NextLimiter ==
  \/ \E t \in Threads :
       \/ CallCanSend(t)
       \/ Acquire(t)
       \/ ReadNow(t)
       \/ EvictStep(t)
       \/ CheckLimit(t)
       \/ AppendNow(t)
       \/ Release(t)
  \/ Tick

SpecLimiter == InitLimiter /\ [][NextLimiter]_vars

\* The snapshot the consumer's engine holds: a keyword rule worth 10 and a
\* regex rule worth 80.
LoopSnapshots ==
  { s \in RuleSnapshots :
      Len(s) = 2 /\ s[1].name = <<"k">> /\ s[2].name = <<"r">> }

\* The consumer: the loop, the engine and the alert service together.
InitLoop ==
  /\ InitEngine(LoopSnapshots)
  /\ InitAlertService({"https://hooks.slack.com/services/T/B/X"})
  /\ InitConsumer
  /\ InitSchema({TRUE})
  /\ InitEncryptionService({PlaceholderKey})

NextLoop ==
  \/ PollNone
  \/ \E code \in {"_PARTITION_EOF", "_ALL_BROKERS_DOWN"} : PollError(code)
  \/ \E payload \in ValidPayloads : PollRecord(payload)
  \/ \E kind \in UnparseableKinds : PollUnparseable(kind)
  \/ PollNullValue
  \/ Finally
  \/ Detect
  \/ \E http \in HttpOutcomes, db_ok \in BOOLEAN : SendAlertsStep(http, db_ok)
  \/ \E outcome \in InsertOutcomes : Persist(outcome)
  \/ AutoCommit

SpecLoop == InitLoop /\ [][NextLoop]_vars

\* The consumer with its dependencies up, and a termination signal at any
\* point of the loop; the interpreter keeps running the main thread.
InitShutdown ==
  /\ InitEngine(LoopSnapshots)
  /\ InitAlertService({"https://hooks.slack.com/services/T/B/X"})
  /\ InitConsumer
  /\ InitSchema(BOOLEAN)
  /\ InitEncryptionService({PlaceholderKey})

NextShutdown ==
  \/ PollNone
  \/ \E payload \in ValidPayloads : PollRecord(payload)
  \/ Detect
  \/ SendAlertsStep("200", TRUE)
  \/ Persist("ok")
  \/ \E point \in SignalPoints : Signal(point)
  \/ LoopExit
  \/ Finally
  \/ Cleanup
  \/ ExitProcess

\* process_batch returns to _process_batch: the Detect step as far as the
\* position of the main thread goes (Detect is enabled whenever pc = "detect").
DetectReturns == pc = "detect" /\ pc' = "alerts"

\* The main thread is never suspended for ever: a call that can return does.
FairShutdown ==
  /\ WF_pc(DetectReturns)
  /\ WF_vars(SendAlertsStep("200", TRUE))
  /\ WF_vars(Persist("ok"))
  /\ WF_vars(LoopExit)
  /\ WF_vars(Finally)
  /\ WF_vars(Cleanup)
  /\ WF_vars(ExitProcess)

SpecShutdown == InitShutdown /\ [][NextShutdown]_vars /\ FairShutdown

\* The process from the entry of main: the readiness checks with either
\* outcome, then the loop with its dependencies up.
InitStartup ==
  /\ InitEngine(LoopSnapshots)
  /\ InitAlertService({"https://hooks.slack.com/services/T/B/X"})
  /\ InitProcess
  /\ InitSchema({TRUE})
  /\ InitEncryptionService({PlaceholderKey})

NextStartup ==
  \/ \E ok \in BOOLEAN : TestDatabase(ok)
  \/ \E ok \in BOOLEAN : TestKafka(ok)
  \/ \E ok \in BOOLEAN : StartConsuming(ok)
  \/ PollNone
  \/ \E payload \in ValidPayloads : PollRecord(payload)
  \/ Detect
  \/ SendAlertsStep("200", TRUE)
  \/ Persist("ok")

SpecStartup == InitStartup /\ [][NextStartup]_vars

\* The persistence sink alone: batches written to a database that is up,
\* with and without a unique constraint on the identifier.
InitSink ==
  /\ InitEngine({<<>>})
  /\ InitAlertService({PlaceholderWebhook})
  /\ InitConsumer
  /\ InitSchema(BOOLEAN)
  /\ InitEncryptionService(UnusableKeyConfigs)

NextSink == \E records \in StoreBatches : BulkInsertLlmRequests(records)

SpecSink == InitSink /\ [][NextSink]_vars

\* The sink with encryption on: records with plain prompts and with a prompt
\* that begins like a token.
SealedRecords ==
  StoreRecords \cup { NewRecord(id, Marker \o <<"a">>, <<"o">>) : id \in 1..MaxBatch }

SealedBatches ==
  UNION { { b \in [1..n -> SealedRecords] :
              \A i, j \in 1..n : i # j => b[i].id # b[j].id }
          : n \in 1..MaxBatch }

InitSealed ==
  /\ InitEngine({<<>>})
  /\ InitAlertService({PlaceholderWebhook})
  /\ InitConsumer
  /\ InitSchema({TRUE})
  /\ InitEncryptionService({KeyText("k", MinKeyLength)})

NextSealed == \E records \in SealedBatches : BulkInsertLlmRequests(records)

SpecSealed == InitSealed /\ [][NextSealed]_vars

\* The encryption service under every key configuration: values pass through
\* encrypt_field, decrypt_field and encrypt_field again, stored values are
\* changed, and keys are rotated.
InitCrypt ==
  /\ InitEngine({<<>>})
  /\ InitAlertService({PlaceholderWebhook})
  /\ InitConsumer
  /\ InitSchema({TRUE})
  /\ InitEncryptionService(KeyConfigs)

NextCrypt ==
  \/ \E field_name \in FieldNames, data \in CallerInputs :
       NewInput(field_name, data)
  \/ \E nonce \in Nonces : CallEncrypt(nonce)
  \/ TamperStored
  \/ CallDecrypt
  \/ \E nonce \in Nonces : CallEncryptAgain(nonce)
  \/ \E new_master_key \in RotationKeys : RotateKeys(new_master_key)

SpecCrypt == InitCrypt /\ [][NextCrypt]_vars

\* The rule cache under concurrent callers: get_rules and force_refresh_rules
\* step by step, while the clock advances.
InitCache ==
  /\ rules = <<>>
  /\ compiled = {}
  /\ regex_errors = 0
  /\ total_processed = 0
  /\ total_flagged = 0
  /\ rule_hit_count = <<>>
  /\ returned = <<>>
  /\ InitRuleCache
  /\ InitAlertService({PlaceholderWebhook})
  /\ InitConsumer
  /\ InitSchema({TRUE})
  /\ InitEncryptionService({PlaceholderKey})

NextCache ==
  \/ \E t \in Threads, op \in {"get", "force"} : CallRuleCache(t, op)
  \/ \E t \in Threads : AcquireCache(t)
  \/ \E t \in Threads : CheckExpiry(t)
  \/ \E t \in Threads, result \in FetchResults : Refresh(t, result)
  \/ \E t \in Threads : ReturnRules(t)
  \/ \E t \in Threads, result \in FetchResults : ForceRefresh(t, result)
  \/ Tick

SpecCache == InitCache /\ [][NextCache]_vars

\* ------------------------------------------------------------------ claims

\* Whether `rule` matches `record`, whatever the regex cache holds.
Matches(record, rule) == CheckRule(record, rule, {}).match

\* The sum of the points of the rules of `rs` that match `record`.
RECURSIVE MatchedPoints(_, _)
MatchedPoints(record, rs) ==
  IF rs = <<>> THEN 0
  ELSE (IF Matches(record, Head(rs)) THEN Head(rs).points ELSE 0)
       + MatchedPoints(record, Tail(rs))

PointsInRange(rs) == \A i \in 1..Len(rs) : rs[i].points \in 0..100

\* C1: for every event and every snapshot whose rules have points in
\* [0,100], the returned record has risk_score in [0,100] and is_flagged is
\* true exactly when risk_score > 0.
C1_ScoreInRangeAndFlagged ==
  PointsInRange(rules) =>
    \A i \in 1..Len(returned) :
      /\ returned[i].risk_score \in 0..100
      /\ returned[i].is_flagged <=> (returned[i].risk_score > 0)

\* A record whose matching rules are worth more than 100 was returned, capped
\* and flagged, beside a record that was returned with score 0, not flagged.
C1_Witness ==
  /\ PointsInRange(rules)
  /\ \E i, j \in 1..Len(returned) :
       /\ MatchedPoints(returned[i], rules) > 100
       /\ returned[i].risk_score = 100
       /\ returned[i].is_flagged
       /\ returned[j].risk_score = 0
       /\ ~returned[j].is_flagged

\* C2: every record process_batch returns has risk_score = min(100, sum of
\* the points of the snapshot rules that match it); a record that matches no
\* rule has risk_score 0 and is not flagged.
C2_ScoreIsCappedSum ==
  \A i \in 1..Len(returned) :
    /\ returned[i].risk_score = Min(100, MatchedPoints(returned[i], rules))
    /\ (\A k \in 1..Len(rules) : ~Matches(returned[i], rules[k]))
         => (returned[i].risk_score = 0 /\ ~returned[i].is_flagged)

\* One batch held a record matching two rules worth 90 together and a record
\* matching none of the snapshot's rules.
C2_Witness ==
  /\ Len(rules) = 2
  /\ \E i, j \in 1..Len(returned) :
       /\ \A k \in 1..2 : Matches(returned[i], rules[k])
       /\ returned[i].risk_score = rules[1].points + rules[2].points
       /\ returned[i].risk_score \in 1..99
       /\ \A k \in 1..2 : ~Matches(returned[j], rules[k])
       /\ returned[j].risk_score = 0

\* A send_alert call for an alert-eligible record is the step that counts it.
EligibleSend == nsends' = nsends + 1

\* The attempts admitted at the ticks from..to.
RECURSIVE AdmittedIn(_, _)
AdmittedIn(from, to) ==
  IF from > to THEN 0
  ELSE admitted[from] + AdmittedIn(from + 1, to)

\* C3: under any interleaving of concurrent attempts, the attempts admitted
\* by the rate limiter inside any rolling one-minute window never exceed 5.
C3_AtMostFivePerWindow ==
  \A s \in Ticks : AdmittedIn(s, Min(s + TimeWindow, MaxClock)) <= 5

\* A thread waits for the lock while another, holding it, is about to append
\* the fifth timestamp of the window.
C3_Witness ==
  \E t, u \in Threads :
    /\ tpc[t] = "append"
    /\ tpc[u] = "lock"
    /\ lock = t
    /\ Len(alert_times) = 4

\* The row a step appended to the alerts table, when it appended one.
Appended == alerts'[Len(alerts')]

AppendedOne == Len(alerts') = Len(alerts) + 1 /\ SubSeq(alerts', 1, Len(alerts)) = alerts

\* C4: when send_alert is called for an alert-eligible record while the
\* window is exhausted, the attempt is recorded with status rate_limited, no
\* network call is made and no timestamp is added to the limiter's queue.
C4_RateLimitedRecorded ==
  [][(EligibleSend /\ last'.limited) =>
       /\ AppendedOne
       /\ Appended.request_id = last'.id
       /\ Appended.status = "rate_limited"
       /\ posts' = posts
       /\ alert_times' = Evict(alert_times, clock)]_vars

\* C5: N alert-eligible records sent one after another within one window,
\* each post answering 200, leave N delivery records in arrival order, the
\* first min(N, 5) with status sent and the rest with status rate_limited.
C5_FirstFiveSentRestLimited ==
  (post_faults = 0 /\ clock <= TimeWindow) =>
    /\ Len(alerts) = nsends
    /\ \A i \in 1..Len(alerts) :
         /\ alerts[i].request_id = i
         /\ alerts[i].status = IF i <= 5 THEN "sent" ELSE "rate_limited"

\* C6: should_send_alert(record) is true iff a webhook is configured, the
\* record is flagged and its risk_score is at least the threshold of 50.
C6_ShouldSendAlertIff ==
  last.id # 0 =>
    (last.eligible <=>
       /\ slack_webhook_url \notin {"", PlaceholderWebhook}
       /\ last.is_flagged
       /\ last.risk_score >= 50)

\* A flagged record at exactly the threshold was found eligible.
C6_Witness ==
  /\ last.id # 0
  /\ last.eligible
  /\ last.risk_score = 50

\* A step of the consumer thread (the background committer takes the others).
ConsumerStep == committed' = committed

\* _send_alerts calls send_alert for the record at alert_idx.
SendAlertCalled == ConsumerStep /\ pc = "alerts" /\ flushing[alert_idx].is_flagged

\* _send_alerts goes on to the batch's next record, or after the last one
\* _process_batch goes on to the bulk insert, with the batch as it was.
BatchGoesOn ==
  /\ flushing' = flushing
  /\ IF alert_idx < Len(flushing)
     THEN pc' = "alerts" /\ alert_idx' = alert_idx + 1
     ELSE pc' = "persist"

\* C7 (as amended): send_alert never raises to its caller. It returns false
\* when the record is not eligible, when the window is exhausted and when the
\* webhook call raises, times out or answers a non-200 status, whether or not
\* the audit write fails as well; it returns true after a 200 answer even when
\* the audit write fails. In every case the batch goes on to its remaining
\* records and to persistence.
C7_NeverRaisesBatchGoesOn ==
  [][SendAlertCalled =>
       /\ last'.id = flushing[alert_idx].id
       /\ ~last'.raised
       /\ last'.result = (last'.eligible /\ ~last'.limited /\ last'.http = "200")
       /\ BatchGoesOn]_vars

\* The webhook call raised and the audit write failed for the first record of
\* a batch of two; send_alert returned false and both records were persisted.
C7_Witness ==
  /\ Len(store) = 2
  /\ alert_idx = 3
  /\ last.id = store[1].id
  /\ last.eligible
  /\ last.http = "raise"
  /\ ~last.db_ok
  /\ ~last.result
  /\ ~last.raised

\* C7 (as stated): send_alert returns false, and the batch goes on, whenever
\* the webhook call raises, times out or answers a non-200 status and
\* whenever writing the audit record fails.
C7_AnyFailureReturnsFalse ==
  [][(SendAlertCalled /\ last'.eligible
        /\ (last'.http \in {"500", "raise"} \/ ~last'.db_ok)) =>
       /\ ~last'.raised
       /\ last'.result = FALSE
       /\ BatchGoesOn]_vars

\* C8: the audit trail is append-only and complete: every send attempt for
\* an alert-eligible record appends exactly one row with status sent, failed
\* or rate_limited (sent_at set only when the status is sent), and no other
\* step changes the table.
C8_AuditAppendOnlyComplete ==
  [][/\ EligibleSend =>
          /\ AppendedOne
          /\ Appended.request_id = last'.id
          /\ Appended.status \in {"sent", "failed", "rate_limited"}
          /\ (Appended.sent_at # None) <=> (Appended.status = "sent")
     /\ ~EligibleSend => alerts' = alerts]_vars

\* poll() returned a message of one of the unparseable kinds.
PolledUnparseable == position' = position + 1 /\ polled'.kind \in UnparseableKinds

C10_PendingBelowBatchSize ==
  /\ pc \in {"poll", "finally"} => Len(batch_records) < BatchSize
  /\ (pc \in {"detect", "alerts", "persist"} /\ resume = "poll") =>
       /\ Len(flushing) = Len(batch_records)
       /\ Len(batch_records) <= BatchSize

\* A batch that reached batch_size was processed and the pending batch emptied.
C10_Witness ==
  /\ pc = "poll"
  /\ batch_records = <<>>
  /\ alert_idx = BatchSize + 1
  /\ messages_processed = BatchSize

\* poll() returned None (an empty poll) in this step.
PolledNone == pc = "poll" /\ polled.kind # "none" /\ polled'.kind = "none"

\* C11: every record in the pending batch is flushed at the latest on the
\* first later poll that returns no message: that poll hands the whole
\* pending batch to _process_batch, whatever the polls before it returned, and
\* when the loop is back at its head after it the pending batch is empty.
C11_FlushOnEmptyPoll ==
  [][/\ (PolledNone /\ batch_records # <<>>) =>
          /\ pc' = "detect"
          /\ flushing' = batch_records
          /\ resume' = "poll"
     /\ (pc' = "poll" /\ polled'.kind = "none") => batch_records' = <<>>]_vars

\* The first message was parsed into the batch, the second was unparseable,
\* and the empty poll after them flushed the one pending record.
C11_Witness ==
  /\ pc = "poll"
  /\ polled.kind = "none"
  /\ position = 2
  /\ dlq = 1
  /\ Len(store) = 1
  /\ store[1].id = 1
  /\ batch_records = <<>>

\* C12: on every flush the batch goes to the Detection Engine first, then to
\* the Persistence Sink, then to the Alert Dispatcher: the step after
\* detection is the bulk insert, and send_alert is called for the batch's
\* records only after that.
C12_DetectPersistAlert ==
  [][/\ (pc = "detect" /\ pc' # "detect") => pc' = "persist"
     /\ (pc = "persist" /\ pc' # "persist") => pc' = "alerts"
     /\ SendAlertCalled => store' = store]_vars

\* The identifiers (offsets) of the rows stored, and of the records in the
\* pending batch or in the batch being flushed.
StoredIds == { store[i].id : i \in 1..Len(store) }

InFlightIds ==
  { batch_records[i].id : i \in 1..Len(batch_records) }
    \cup { flushing[i].id : i \in 1..Len(flushing) }

\* C13: delivery is at-least-once: no message whose offset has been
\* acknowledged is left neither persisted nor dead-lettered. Every committed
\* offset is stored, still on its way through the consumer, or one of the
\* dead-lettered messages.
C13_NoAckedMessageLost ==
  Cardinality({ o \in 1..committed : o \notin StoredIds /\ o \notin InFlightIds })
    <= dlq

\* No identifier is stored in two rows.
NoIdStoredTwice ==
  \A i, j \in 1..Len(store) : i # j => store[i].id # store[j].id

\* C14: persistence is idempotent by record identifier: writing a record
\* whose identifier is already stored neither creates a second row nor fails
\* the batch (the call reports the whole batch written).
C14_IdempotentByIdentifier ==
  /\ NoIdStoredTwice
  /\ inserted = Len(flushing)

\* The step in which _process_batch calls the bulk insert and counts.
PersistStep == pc = "persist" /\ pc' # "persist"

\* C15: the bulk insert returns exactly the number of records durably
\* committed (the batch size when the transaction commits, zero on any
\* failure, a failed commit included); the consumer adds that number to
\* messages_processed and the rest of the batch to messages_failed.
C15_ReturnsCommittedCount ==
  [][PersistStep =>
       /\ inserted' = Len(store') - Len(store)
       /\ inserted' \in {0, Len(flushing)}
       /\ messages_processed' = messages_processed + inserted'
       /\ messages_failed' = messages_failed + (Len(flushing) - inserted')]_vars

\* C18: while the running flag is set, no fault of the steady state (an
\* unparseable or empty-bodied message, a rule evaluation error, a storage
\* failure during a flush, an alert failure) makes the loop leave: the
\* consumer is polling or flushing, never in the finally clause or past it.
C18_NoFaultLeavesLoop ==
  running => pc \in {"poll", "detect", "alerts", "persist"} /\ resume = "poll"

\* C19: get_rules fetches from the rule store if and only if the snapshot's
\* age exceeds the refresh interval at the time of the call; the set it then
\* returns was fetched in this call, and otherwise the cached snapshot is
\* returned without a fetch. (Stated for a caller about to return; a fetch
\* that failed is allowed to return the prior snapshot.)
C19_FetchesIffSnapshotExpired ==
  \A t \in Threads :
    (caller[t].op = "get" /\ caller[t].pc = "return") =>
      /\ caller[t].fetched <=> caller[t].stale
      /\ (caller[t].fetched /\ caller[t].fresh) => fetched_at = caller[t].now

\* The threads inside the critical section of the rule cache.
InCache == { t \in Threads : caller[t].pc \in {"check", "fetch", "return", "force"} }

\* A thread ends its fetch of the rule store.
Fetches(t) == caller[t].pc = "fetch" /\ caller'[t].pc # "fetch"

\* C20: concurrent get_rules calls on an expired snapshot issue one fetch for
\* that expiry: the refresh runs under the lock (one thread at a time inside),
\* a fetch is issued only for a snapshot still expired at the caller's time
\* and ends that expiry, and a caller that finds it refreshed returns the
\* snapshot the refresher left without fetching.
C20_OneFetchPerExpiry ==
  [][/\ Cardinality(InCache) <= 1
     /\ \A t \in InCache : rc_lock = t
     /\ \A t \in Threads :
          /\ Fetches(t) =>
               /\ rc_lock = t
               /\ Expired(caller[t].now, last_refresh)
               /\ ~Expired(caller[t].now, last_refresh')
          /\ (caller[t].pc = "check" /\ ~Expired(clock, last_refresh)) =>
               (caller'[t].pc # "check" => caller'[t].pc = "return" /\ rules' = rules)
          /\ (caller[t].pc = "return" /\ caller'[t].pc = "idle") =>
               caller'[t].ret = rules]_vars

\* One caller is fetching under the lock while another, which also called
\* get_rules, waits for the lock.
C20_Witness ==
  \E t, u \in Threads :
    /\ t # u
    /\ caller[t].op = "get" /\ caller[t].pc = "fetch" /\ rc_lock = t
    /\ caller[u].op = "get" /\ caller[u].pc = "lock"

\* The upstream consumer connection is closed in this step.
Closes == pc = "exit" /\ pc' = "closed"

\* C16: after a termination signal the loop polls no further message, every
\* record still in the pending batch is flushed (here, with storage up:
\* stored) before the upstream consumer connection is closed, and the
\* process then terminates.
C16_DrainBeforeClose ==
  /\ [][/\ ~running => (position' = position /\ polled' = polled)
        /\ Closes => \A i \in 1..Len(batch_records) :
                       batch_records[i].id \in StoredIds]_vars
  /\ (~running ~> pc = "done")

\* The process has ended after a signal that found a batch pending.
C16_Witness ==
  pc = "done" /\ ~running /\ batch_records # <<>> /\ exit_status = Some(0)

\* C17: the consume loop is entered (and a message polled) only after the
\* storage and the upstream readiness checks have both succeeded; when
\* storage was unreachable for the whole retry budget of 30 attempts, or a
\* later check failed, the process has ended with a non-zero status without
\* having polled a message.
C17_LoopOnlyAfterReadiness ==
  /\ (running \/ pc = "poll" \/ position > 0) => ready = {"storage", "upstream"}
  /\ pc = "start" => ready = {"storage", "upstream"}
  /\ pc = "wait_kafka" => ready = {"storage"}
  /\ pc = "wait_db" => (ready = {} /\ attempt < MaxRetries)
  /\ (pc = "done" /\ "storage" \notin ready) =>
       (attempt = MaxRetries - 1 /\ MaxRetries = 30)
  /\ pc = "done" => (exit_status = Some(1) /\ position = 0 /\ ~running)
  /\ pc # "done" => exit_status = None

\* The process has exited with status 1 after the thirtieth failed attempt
\* to reach storage.
C17_Witness ==
  /\ pc = "done" /\ exit_status = Some(1)
  /\ ready = {} /\ attempt = MaxRetries - 1 /\ position = 0

\* A thread ends a fetch of the rule store, in get_rules or in
\* force_refresh_rules.
EndsFetch(t) ==
  /\ caller[t].pc \in {"fetch", "force"}
  /\ caller'[t].pc # caller[t].pc

\* A thread returns from get_rules.
Returns(t) == caller[t].pc = "return" /\ caller'[t].pc = "idle"

\* C21: every list get_rules returns is the complete list of one successful
\* fetch, or the initial empty list, also while another thread refreshes or
\* forces a refresh: the snapshot is only ever replaced as a whole, by the
\* thread that holds the lock and whose fetch succeeded, and a caller
\* returns the snapshot it read while holding the lock.
C21_SnapshotIsOneWholeFetch ==
  [][/\ rules \in {<<>>} \cup CacheSnapshots
     /\ rules' # rules =>
          \E t \in Threads :
            /\ EndsFetch(t) /\ rc_lock = t
            /\ caller'[t].fresh
            /\ rules' \in CacheSnapshots
     /\ \A t \in Threads :
          Returns(t) => (rc_lock = t /\ caller'[t].ret = rules /\ rules' = rules)]_vars

\* A caller has returned a fetched list while another thread is inside a
\* refresh or a forced refresh.
C21_Witness ==
  \E t, u \in Threads :
    /\ t # u
    /\ caller[t].op = "get" /\ caller[t].pc = "idle" /\ caller[t].ret # <<>>
    /\ caller[u].pc \in {"fetch", "force"}

\* C22: when a fetch of the rule store fails, the snapshot get_rules serves
\* is the one held before the failed refresh (it is not replaced, and not by
\* an empty list), and the failure is not raised to the caller, who returns
\* that snapshot.
C22_FailedFetchKeepsSnapshot ==
  [][\A t \in Threads :
       /\ (EndsFetch(t) /\ ~caller'[t].fresh) =>
            /\ rules' = rules
            /\ caller'[t].pc = IF caller[t].op = "get" THEN "return" ELSE "idle"
       /\ caller'[t].pc # "raised"
       /\ (Returns(t) /\ caller[t].fetched /\ ~caller[t].fresh) =>
            caller'[t].ret = rules]_vars

\* A caller has returned a non-empty snapshot from a call whose fetch failed.
C22_Witness ==
  \E t \in Threads :
    /\ caller[t].op = "get" /\ caller[t].pc = "idle"
    /\ caller[t].fetched /\ ~caller[t].fresh
    /\ caller[t].ret # <<>>

\* ---- field encryption

\* A pass through the service whose keys and stored value were left alone,
\* with encryption on and a field that has a key.
EnabledPass ==
  /\ cell.clean
  /\ encryption_enabled
  /\ cell.field \in Fields

\* The value handed in is itself a token that the field's key accepts.
InputIsCiphertext ==
  /\ IsEncrypted(cell.x)
  /\ FernetValid(field_keys[cell.field], cell.x[1])

\* C23 as stated: with encryption enabled, decrypt_field(field,
\* encrypt_field(field, x)) is x for each of the three fields and every x,
\* strings that begin with the marker included.
C23_RoundTrip ==
  (EnabledPass /\ cell.stage = "decrypted") => cell.d = cell.x

\* C23, corrected: the round trip gives x back for every x that is not itself
\* a ciphertext of the field's key (plain text that only begins with the
\* marker included); an x that is such a ciphertext is left as it is by
\* encrypt_field, and decrypt_field gives its plaintext.
C23_RoundTripUnlessCiphertext ==
  (EnabledPass /\ cell.stage = "decrypted") =>
    IF InputIsCiphertext
    THEN /\ cell.c = cell.x
         /\ cell.d = Some(FernetDecrypt(field_keys[cell.field], cell.x[1]))
         /\ cell.d # cell.x
    ELSE cell.d = cell.x

\* A plain string has been encrypted to a token and decrypted again.
C23_Witness ==
  /\ EnabledPass /\ cell.stage = "decrypted"
  /\ cell.x = Some(<<"a">>)
  /\ IsEncrypted(cell.c)
  /\ cell.d = cell.x

\* A string that begins with the marker has been through both calls.
C23_MarkedWitness ==
  /\ EnabledPass /\ cell.stage = "decrypted"
  /\ cell.x = Some(Marker \o <<"a">>)
  /\ cell.d = cell.x

\* The place of the drawn timestamp and IV in a token.
NoncePlace == Len(Marker) + 3

\* Two values are tokens that differ in nothing but the timestamp and IV.
SameButForNonce(a, b) ==
  /\ IsEncrypted(a) /\ IsEncrypted(b)
  /\ Len(a[1]) = Len(b[1])
  /\ Len(a[1]) >= NoncePlace
  /\ \A i \in 1..Len(a[1]) : i # NoncePlace => a[1][i] = b[1][i]

\* C24 as stated: for an enabled field and non-empty x, encrypt(field,
\* decrypt(field, encrypt(field, x))) equals encrypt(field, x).
C24_ReencryptionEqual ==
  (EnabledPass /\ cell.stage = "reencrypted" /\ ~Empty(cell.x)) =>
    cell.e = cell.c

\* C24, corrected: for an enabled field and non-empty x, encrypt(field,
\* decrypt(field, encrypt(field, x))) is a ciphertext of the same plaintext as
\* encrypt(field, x): decrypt_field gives the same value for both, and the two
\* are equal or differ only in the timestamp and IV drawn by each encryption.
C24_ReencryptionSamePlaintext ==
  (EnabledPass /\ cell.stage = "reencrypted" /\ ~Empty(cell.x)) =>
    /\ DecryptField(encryption_enabled, field_keys, cell.field, cell.e) = cell.d
    /\ cell.e = cell.c \/ SameButForNonce(cell.e, cell.c)

\* A plain string was encrypted, decrypted and encrypted again, and the second
\* ciphertext is another string than the first.
C24_Witness ==
  /\ EnabledPass /\ cell.stage = "reencrypted"
  /\ cell.x = Some(<<"a">>)
  /\ cell.d = cell.x
  /\ cell.e # cell.c
  /\ SameButForNonce(cell.e, cell.c)

\* The value handed in is one that encrypt_field returned for a plaintext
\* under the field's key.
InputWasEncrypted ==
  /\ cell.field \in DOMAIN field_keys
  /\ \E nonce \in Nonces, p \in PlainTexts :
       /\ ~IsEncrypted(Some(p))
       /\ cell.x = EncryptField(TRUE, field_keys, cell.field, Some(p), nonce)

\* C25: encrypt_field is a no-op on input that carries the marker: a value it
\* returned for a plaintext comes back unchanged from a further call, and so
\* does any other marked value, so no value is encrypted twice.
C25_NoDoubleEncryption ==
  (cell.stage \in {"encrypted", "decrypted", "reencrypted"} /\ cell.clean) =>
    /\ (InputWasEncrypted \/ IsEncrypted(cell.x)) => cell.c = cell.x
    /\ cell.stage = "reencrypted" /\ IsEncrypted(cell.d) => cell.e = cell.d

\* A token that encrypt_field returned has been handed to it again, with
\* encryption on.
C25_Witness ==
  /\ cell.stage = "encrypted" /\ EnabledPass
  /\ InputWasEncrypted
  /\ cell.x # Some(<<>>) /\ Len(cell.x[1]) > NoncePlace
  /\ cell.c = cell.x

\* The configured master key is absent, the placeholder, or shorter than 32.
KeyUnusable ==
  \/ encryption_key = <<>>
  \/ encryption_key = PlaceholderKey
  \/ Len(encryption_key) < MinKeyLength

\* Values to pass through the service: nothing, plain and marked strings, and
\* tokens made under a usable key.
PassThroughInputs ==
  {None} \cup { Some(p) : p \in PlainTexts }
         \cup { Some(FernetEncrypt(DeriveKey(KeyText("k", MinKeyLength), f), n, <<"a">>)) :
                  f \in Fields, n \in Nonces }

\* C26: with encryption disabled (master key absent, placeholder, or shorter
\* than 32) encrypt_field and decrypt_field return every value of every field
\* unchanged, and the bulk insert still stores the batch, its rows as they
\* were handed in.
C26_DisabledPassesThroughAndPersists ==
  [][KeyUnusable =>
       /\ \A f \in FieldNames, x \in PassThroughInputs, n \in Nonces :
            /\ EncryptField(encryption_enabled, field_keys, f, x, n) = x
            /\ DecryptField(encryption_enabled, field_keys, f, x) = x
       /\ ~(primary_key /\ IdConflict(store, flushing')) =>
            /\ store' = store \o flushing'
            /\ inserted' = Len(flushing')]_vars

\* Under a key one character short, a batch has been stored as handed in.
C26_Witness ==
  /\ encryption_key = KeyText("k", MinKeyLength - 1)
  /\ inserted = Len(flushing) /\ inserted > 0
  /\ SubSeq(store, Len(store) - inserted + 1, Len(store)) = flushing

\* decrypt_field was called, with encryption on, on a marked value that the
\* field's key does not accept: a changed token, or one made under other keys.
FailedVerification ==
  /\ cell.stage = "decrypted"
  /\ encryption_enabled
  /\ cell.field \in Fields
  /\ IsEncrypted(cell.c)
  /\ ~FernetValid(field_keys[cell.field], cell.c[1])

\* C27: when a marked input fails verification, decrypt_field returns an
\* indication of failure, never the ciphertext itself.
C27_FailureNeverReturnsCiphertext ==
  FailedVerification => cell.d # cell.c

\* ---- detection engine: malformed rules and the reason list

\* A regex rule whose pattern does not compile.
BadRegex(rule) == rule.rule_type = "regex" /\ ~RegexCompiles(rule.pattern)

\* The rules of `rs` that compile and match `record`, in the order of `rs`.
GoodMatching(record, rs) ==
  SelectSeq(rs, LAMBDA rule : ~BadRegex(rule) /\ Matches(record, rule))

RECURSIVE SumPoints(_)
SumPoints(rs) == IF rs = <<>> THEN 0 ELSE Head(rs).points + SumPoints(Tail(rs))

\* C28: a rule whose regex does not compile is a non-match for every record
\* and does not stop process_batch: each record of the batch comes back scored
\* by the other rules alone, and no reason names the malformed rule.
C28_BadRegexIsNonMatch ==
  rules # <<>> =>
    \A i \in 1..Len(returned) :
      LET others == GoodMatching(returned[i], rules)
      IN /\ returned[i].risk_score = Min(100, SumPoints(others))
         /\ returned[i].flag_reason =
              IF others = <<>> THEN None
              ELSE Some(Join(<<",", " ">>, [k \in 1..Len(others) |-> others[k].name]))

\* A batch went through a snapshot that holds a malformed regex rule before a
\* rule that matches: the compile error was counted and the record carries
\* the points of the matching rule.
C28_Witness ==
  /\ Len(rules) = 2
  /\ BadRegex(rules[1]) /\ ~BadRegex(rules[2])
  /\ regex_errors > 0
  /\ \E i \in 1..Len(returned) :
       /\ returned[i].prompt # <<>>
       /\ Matches(returned[i], rules[2])
       /\ returned[i].risk_score = rules[2].points
       /\ returned[i].risk_score > 0

\* The record carries a reason that is not the empty string.
HasReason(record) ==
  record.flag_reason # None /\ record.flag_reason[1] # <<>>

\* C29: flag_reason is non-empty exactly when is_flagged is true, for every
\* rule snapshot, snapshots with rules worth 0 points included.
C29_ReasonIffFlagged ==
  \A i \in 1..Len(returned) : HasReason(returned[i]) <=> returned[i].is_flagged

\* The names of the rules of `rs` that match `record`, in the order of `rs`.
MatchingNames(record, rs) ==
  LET matching == SelectSeq(rs, LAMBDA rule : Matches(record, rule))
  IN [k \in 1..Len(matching) |-> matching[k].name]

Keywords(pattern) ==
  LET parts == SplitComma(pattern)
  IN { Lower(Strip(parts[i])) : i \in 1..Len(parts) } \ {<<>>}

\* The reason of `record` names `rule`.
NamedInReason(record, rule) ==
  /\ record.flag_reason # None
  /\ Contains(record.flag_reason[1], rule.name)

\* C31: a keyword rule matches a record exactly when one of its keywords
\* occurs, ignoring case, in the prompt; an empty element of the pattern makes
\* no prompt match.
C31_KeywordMatchesIffKeywordOccurs ==
  \A i \in 1..Len(returned), k \in 1..Len(rules) :
    rules[k].rule_type = "keyword" =>
      (NamedInReason(returned[i], rules[k]) <=>
         \E kw \in Keywords(rules[k].pattern) :
           Contains(Lower(returned[i].prompt), kw))

\* ---- key rotation

\* A plain, non-empty value that was encrypted before a rotation to another
\* master key has been encrypted again and decrypted, with encryption on.
PassAfterRotation ==
  /\ EnabledPass
  /\ cell.again
  /\ cell.stage = "decrypted"
  /\ ~Empty(cell.x) /\ ~IsEncrypted(cell.x)

\* C32: after rotate_keys has installed a new master key of at least 32
\* characters, a value encrypted afterwards decrypts to itself under the new
\* keys, and its ciphertext differs from the one made before the rotation.
C32_RoundTripAfterRotation ==
  PassAfterRotation =>
    /\ Len(master_key) >= MinKeyLength
    /\ cell.d = cell.x
    /\ IsEncrypted(cell.c)
    /\ cell.c # cell.old

\* The value "a" was encrypted under one key and, after a rotation, under
\* another, and came back from decrypt_field.
C32_Witness ==
  /\ PassAfterRotation
  /\ cell.x = Some(<<"a">>)
  /\ IsEncrypted(cell.old)
  /\ cell.d = cell.x

\* decrypt_field was called, with encryption on, on the untouched ciphertext
\* of a plain value that was made under another master key than the one
\* installed at the call.
ReadAfterRotation ==
  /\ cell.stage = "decrypted"
  /\ encryption_enabled
  /\ cell.field \in Fields
  /\ ~Empty(cell.x) /\ ~IsEncrypted(cell.x)
  /\ cell.c = cell.out
  /\ cell.key # cell.read_key

MatchCount(records, rule) ==
  Cardinality({ i \in 1..Len(records) : Matches(records[i], rule) })

\* rule_hit_count.get(name, 0)
HitCount(hits, name) == IF name \in DOMAIN hits THEN hits[name] ELSE 0

\* C34: each process_batch call adds the number of records it was given to
\* total_processed, the number of records it returns flagged to
\* total_flagged, and to every rule's hit count the number of records the
\* rule matched; so the counters equal the totals over all calls so far.
C34_CountersMatchRecords ==
  [][/\ total_processed' = total_processed + Len(returned')
     /\ total_flagged' =
          total_flagged
            + Cardinality({ i \in 1..Len(returned') : returned'[i].is_flagged })
     /\ \A k \in 1..Len(rules) :
          HitCount(rule_hit_count', rules[k].name) =
            HitCount(rule_hit_count, rules[k].name)
              + MatchCount(returned', rules[k])]_vars

\* ---- regex cache

\* The patterns of the snapshot's regex rules that do not compile.
BadPatterns == { rules[k].pattern : k \in { j \in 1..Len(rules) : BadRegex(rules[j]) } }

\* C35: over any sequence of records each pattern is compiled at most once,
\* and a pattern that fails to compile is reported once, not once for each
\* record: the engine logs no more compile errors than it has malformed
\* patterns.
C35_BadPatternReportedOnce ==
  regex_errors <= Cardinality(BadPatterns)

\* ---- a signal during a flush

\* C36: a termination signal that arrives while a batch is being flushed does
\* not make the batch go through a second time: no more records have been
\* through detection, through send_alert or into the table than messages
\* were delivered.
C36_FlushedAtMostOnce ==
  /\ total_processed <= position
  /\ nsends <= position
  /\ Len(store) <= position

\* ---- statistics

\* C37: reading the alert statistics leaves the rate limiter's queue of
\* timestamps as it was: it uses up none of the window's sends.
C37_StatsLeaveLimiterAlone ==
  [][last' = StatsCall => alert_times' = alert_times]_vars

\* ---- the consumer's counters

\* The size of the batch the loop holds: none once the finally clause is past.
PendingSize ==
  IF pc \in {"poll", "detect", "alerts", "persist", "finally"}
  THEN Len(batch_records) ELSE 0

\* C38: at every point of the consume loop the messages counted as processed,
\* those counted as failed and those pending in the batch add up to the
\* messages polled so far (poll errors aside): each is counted once.
C38_EachMessageCountedOnce ==
  messages_processed + messages_failed + PendingSize = position

\* ---- failed refresh

\* The last attempt to fetch the rules failed: the stamp of the last refresh
\* is not the time of the last fetch that succeeded.
LastFetchFailed == last_refresh # fetched_at

\* C39: a failed fetch does not count as a refresh: a get_rules call that
\* comes after a failed attempt finds the snapshot expired and fetches again.
C39_FailedFetchIsRetried ==
  [][\A t \in Threads :
       (caller[t].pc = "check" /\ caller'[t].pc # "check" /\ LastFetchFailed)
         => caller'[t].pc = "fetch"]_vars

\* ---- encryption at rest

\* C40: while encryption is enabled every non-empty prompt the sink writes is
\* stored as ciphertext under the field's key, whatever the input.
C40_StoredAsCiphertext ==
  encryption_enabled =>
    \A i \in 1..Len(store) :
      store[i].prompt # <<>> =>
        FernetValid(field_keys["prompt"], store[i].prompt)

====
